---- MODULE Spec2Model ----
(***************************************************************************)
(* A model of the OSM routing animation: the road graph built from ways,   *)
(* the binary-heap priority queue, and the A* search generator with its    *)
(* virtual start and goal nodes.                                           *)
(*                                                                         *)
(* Numbers.  The program computes with IEEE doubles.  The model keeps      *)
(* finite non-negative values as fixed-point naturals and keeps the two    *)
(* special values the program can produce, Infinity and NaN, as two        *)
(* negative codes with the arithmetic and the comparisons of JavaScript.   *)
(* Interpolation fractions are numerators over TDen.                       *)
(***************************************************************************)
EXTENDS Integers, Sequences, FiniteSets, TLC

\* ------------------------------------------------------------------------
\* Bounds of the model
\* ------------------------------------------------------------------------

\* Number of nodes of the ladder maps (two rails joined by rungs).
NumNodes == 4

\* ------------------------------------------------------------------------
\* State
\* ------------------------------------------------------------------------

VARIABLES
  loadedMap,           \* the map the network was built from
  roadNetwork,         \* the RoadNetwork: [nodes, adjacencyList]
  gens,                \* the findRoute generators created so far
  steps,               \* per generator, the steps pulled from it so far
  state,               \* StateManager.state
  snappedOrigin,       \* Application.snappedOrigin
  snappedDestination,  \* Application.snappedDestination
  controllers,         \* the AnimationControllers created so far; the last
                       \* one is Application.animationController
  parsing,             \* the file names of the parseFile calls in flight
  built,               \* per generator: buildFromOSM has been called on
                       \* its network since findRoute created it
  pulledStale,         \* per generator: next() has been called on it
                       \* after such a buildFromOSM
  lastCall,            \* the last call a caller made on the RoadNetwork or
                       \* the MapMatcher directly, with what it returned
  pqueue,              \* a PriorityQueue used on its own: its heap, and
                       \* the log of the pushes and pops made on it
  emitted,             \* the events the handler or callback that ran last
                       \* emitted with StateManager.emit, in order
  failed,              \* the files whose latest settled load was rejected
  listeners            \* StateManager.listeners (map), and the pairs (event,
                       \* callback) subscribe has returned an unsubscribe
                       \* function for (returned)

appVars ==
  <<state, snappedOrigin, snappedDestination, controllers, parsing, built, pulledStale,
    lastCall, pqueue, emitted, failed, listeners>>

vars == <<loadedMap, roadNetwork, gens, steps, appVars>>

\* ------------------------------------------------------------------------
\* JavaScript numbers
\* ------------------------------------------------------------------------

Infinity == -1
NaN == Infinity - 1

IsFiniteNum(x) == x >= 0

\* a + b
NumAdd(a, b) ==
  IF a = NaN \/ b = NaN THEN NaN
  ELSE IF a = Infinity \/ b = Infinity THEN Infinity
  ELSE a + b

\* a < b : false as soon as one side is NaN
NumLess(a, b) ==
  IF a = NaN \/ b = NaN THEN FALSE
  ELSE IF a = Infinity THEN FALSE
  ELSE IF b = Infinity THEN TRUE
  ELSE a < b

\* a >= b : false as soon as one side is NaN
NumGeq(a, b) ==
  IF a = NaN \/ b = NaN THEN FALSE
  ELSE IF a = Infinity THEN TRUE
  ELSE IF b = Infinity THEN FALSE
  ELSE a >= b

\* x || d : 0 and NaN are falsy
OrElse(x, d) == IF x = 0 \/ x = NaN THEN d ELSE x

\* toFixed(4) keeps four decimals
ToFixedScale == 10000

\* Interpolation fractions are t / TDen with t in 0..TDen; the resolution is
\* finer than four decimals so that distinct fractions can share a rounding.
TDen == 3 * ToFixedScale

\* fraction * c, for a fraction t / TDen
FracMul(t, c) ==
  IF c = NaN THEN NaN
  ELSE IF c = Infinity THEN (IF t = 0 THEN NaN ELSE Infinity)
  ELSE (t * c) \div TDen

\* Number.prototype.toFixed(4) of t / TDen, as a count of ten-thousandths
\* (round to nearest, the larger one on a tie)
ToFixed4(t) == (2 * t * ToFixedScale + TDen) \div (2 * TDen)

\* ------------------------------------------------------------------------
\* Geometry.  Coordinates are integers, in metres; GridStep is the spacing
\* of the nodes of the test grid (its 0.01 degree, scaled down).  The
\* great-circle distance is modelled by the planar distance rounded down.
\* ------------------------------------------------------------------------

GridStep == 100

MinutesPerHour == 60

\* cost unit: (distance unit) * 60 / TimeScale per km/h
TimeScale == MinutesPerHour * 10

Abs(x) == IF x < 0 THEN 0 - x ELSE x

RECURSIVE IsqrtIter(_, _, _)
IsqrtIter(n, lo, hi) ==
  IF lo >= hi THEN lo
  ELSE LET mid == (lo + hi + 1) \div 2
       IN IF mid * mid <= n THEN IsqrtIter(n, mid, hi)
                            ELSE IsqrtIter(n, lo, mid - 1)

\* LatLng values are records [lat, lng]
haversineDistance(point1, point2) ==
  LET dy == Abs(point2.lat - point1.lat)
      dx == Abs(point2.lng - point1.lng)
  IN IsqrtIter(dx * dx + dy * dy, 0, dx + dy)

\* (distance / 1000) / speed * 60
TravelTime(distance, speed) == (distance * TimeScale) \div speed

\* ------------------------------------------------------------------------
\* Routing modes and the highway tables of RoadNetwork
\* ------------------------------------------------------------------------

Modes == {"car", "bicycle", "pedestrian"}

carRoads ==
  {"motorway", "trunk", "primary", "secondary", "tertiary", "unclassified",
   "residential", "motorway_link", "trunk_link", "primary_link",
   "secondary_link", "tertiary_link", "living_street", "service"}

bikeRoads ==
  {"trunk", "primary", "secondary", "tertiary", "unclassified", "residential",
   "living_street", "service", "cycleway", "path", "footway", "track"}

pedestrianRoads ==
  {"primary", "secondary", "tertiary", "unclassified", "residential",
   "living_street", "service", "footway", "path", "steps", "pedestrian"}

speedMap ==
  [motorway |-> 120, trunk |-> 100, primary |-> 80, secondary |-> 70,
   tertiary |-> 60, unclassified |-> 50, residential |-> 40,
   living_street |-> 10, service |-> 20, motorway_link |-> 60,
   trunk_link |-> 50, primary_link |-> 50, secondary_link |-> 40,
   tertiary_link |-> 40, cycleway |-> 20, footway |-> 5, path |-> 5,
   steps |-> 3, pedestrian |-> 5]

\* tags.get(k): "" stands for undefined (the parser stores no empty value)
TagGet(tags, k) == IF k \in DOMAIN tags THEN tags[k] ELSE ""

\* a variant that knows one spelling only
isOnewayYesOnly(tags) == TagGet(tags, "oneway") = "yes"

isOneway(tags) ==
  LET oneway == TagGet(tags, "oneway")
  IN oneway = "yes" \/ oneway = "1" \/ oneway = "true"

getValidModes(tags) ==
  LET highway == TagGet(tags, "highway")
  IN IF highway = "" THEN {}
     ELSE (IF highway \in carRoads THEN {"car"} ELSE {})
          \cup (IF highway \in bikeRoads THEN {"bicycle"} ELSE {})
          \cup (IF highway \in pedestrianRoads THEN {"pedestrian"} ELSE {})

getSpeedLimit(tags) ==
  LET highway == TagGet(tags, "highway")
  IN IF highway = "" THEN 40
     ELSE IF highway \in DOMAIN speedMap THEN speedMap[highway] ELSE 40

\* ------------------------------------------------------------------------
\* RoadNetwork.  The adjacency list is a JavaScript Map: keys in insertion
\* order, and for every key its array of edges.
\* ------------------------------------------------------------------------

AdjHas(adj, id) == \E i \in 1..Len(adj.keys) : adj.keys[i] = id

AdjIndex(adj, id) == CHOOSE i \in 1..Len(adj.keys) : adj.keys[i] = id

\* adjacencyList.get(id) || []
AdjGet(adj, id) == IF AdjHas(adj, id) THEN adj.lists[AdjIndex(adj, id)] ELSE << >>

NodeLatLng(node) == [lat |-> node.lat, lng |-> node.lon]

\* The addEdge calls of the inner loop of buildFromOSM for the pair
\* (nodeIds[i], nodeIds[i+1]), in order, each as [fromId, edge]: none when a
\* node is missing, the forward edge, and the backward edge if not oneway.
PairEdges(nodes, way, i) ==
  LET fromId == way.nodeIds[i]
      toId == way.nodeIds[i + 1]
  IN IF fromId \notin DOMAIN nodes \/ toId \notin DOMAIN nodes THEN << >>
     ELSE LET distance == haversineDistance(NodeLatLng(nodes[fromId]), NodeLatLng(nodes[toId]))
              cost == TravelTime(distance, getSpeedLimit(way.tags))
              oneway == isOneway(way.tags)
              validModes == getValidModes(way.tags)
              forward == [fromId |-> fromId,
                          edge |-> [targetNodeId |-> toId, cost |-> cost, wayId |-> way.id,
                                    isOneway |-> oneway, validModes |-> validModes]]
              backward == [fromId |-> toId,
                           edge |-> [targetNodeId |-> fromId, cost |-> cost, wayId |-> way.id,
                                     isOneway |-> FALSE, validModes |-> validModes]]
          IN IF ~oneway THEN <<forward, backward>> ELSE <<forward>>

\* a variant with break for continue: the first pair with a missing node
\* ends the loop over the pairs of the way
RECURSIVE WayEdgesBreak(_, _, _)
WayEdgesBreak(nodes, way, i) ==
  IF i > Len(way.nodeIds) - 1 THEN << >>
  ELSE IF way.nodeIds[i] \notin DOMAIN nodes \/ way.nodeIds[i + 1] \notin DOMAIN nodes
  THEN << >>
  ELSE PairEdges(nodes, way, i) \o WayEdgesBreak(nodes, way, i + 1)

\* the addEdge calls of one way, from pair i on
RECURSIVE WayEdges(_, _, _)
WayEdges(nodes, way, i) ==
  IF i > Len(way.nodeIds) - 1 THEN << >>
  ELSE PairEdges(nodes, way, i) \o WayEdges(nodes, way, i + 1)

\* the addEdge calls of the outer loop, from way w on
RECURSIVE AllEdges(_, _, _)
AllEdges(nodes, ways, w) ==
  IF w > Len(ways) THEN << >>
  ELSE WayEdges(nodes, ways[w], 1) \o AllEdges(nodes, ways, w + 1)

\* The Map the addEdge calls leave: a key is added, with an empty array, at
\* the first call for it, and every call pushes its edge on its key's array.
addEdge(calls) ==
  LET first == SelectSeq([i \in 1..Len(calls) |-> i],
                         LAMBDA i : \A j \in 1..(i - 1) : calls[j].fromId # calls[i].fromId)
      pushed(id) == SelectSeq(calls, LAMBDA c : c.fromId = id)
  IN [keys |-> [k \in 1..Len(first) |-> calls[first[k]].fromId],
      lists |-> [k \in 1..Len(first) |->
                   LET p == pushed(calls[first[k]].fromId)
                   IN [j \in 1..Len(p) |-> p[j].edge]]]

\* the RoadNetwork after buildFromOSM(parsed)
buildFromOSM(parsed) ==
  [nodes |-> parsed.nodes,
   adjacencyList |-> addEdge(AllEdges(parsed.nodes, parsed.ways, 1))]

getNode(network, nodeId) == network.nodes[nodeId]

HasNode(network, nodeId) == nodeId \in DOMAIN network.nodes

\* a variant that takes "ignore oneway" for bicycles and pedestrians as
\* "use all edges": no filter for these modes
getNeighborsAllOffCar(network, nodeId, mode) ==
  IF mode = "car"
  THEN SelectSeq(AdjGet(network.adjacencyList, nodeId), LAMBDA edge : mode \in edge.validModes)
  ELSE AdjGet(network.adjacencyList, nodeId)

getNeighbors(network, nodeId, mode) ==
  SelectSeq(AdjGet(network.adjacencyList, nodeId), LAMBDA edge : mode \in edge.validModes)

\* ------------------------------------------------------------------------
\* PriorityQueue: a binary min-heap in an array.  heap is a sequence of
\* [item, priority]; index k of the program is position k + 1 here.
\* ------------------------------------------------------------------------

\* F applied to the value of x: an argument is evaluated once, before the call
ByValue(x, F(_)) == CHOOSE r \in {F(v) : v \in {x}} : TRUE

Swap(heap, i, j) == [heap EXCEPT ![i] = heap[j], ![j] = heap[i]]

\* bubbleUp(index), with index and parentIndex as 0-based indices
RECURSIVE bubbleUp(_, _)
bubbleUp(heap, index) ==
  IF index <= 0 THEN heap
  ELSE LET parentIndex == (index - 1) \div 2
       IN IF NumGeq(heap[index + 1].priority, heap[parentIndex + 1].priority) THEN heap
          ELSE ByValue(Swap(heap, index + 1, parentIndex + 1), LAMBDA h : bubbleUp(h, parentIndex))

\* bubbleDown(index), 0-based
RECURSIVE bubbleDown(_, _)
bubbleDown(heap, index) ==
  LET leftChild == 2 * index + 1
      rightChild == 2 * index + 2
      min1 == IF leftChild < Len(heap)
                 /\ NumLess(heap[leftChild + 1].priority, heap[index + 1].priority)
              THEN leftChild ELSE index
      minIndex == IF rightChild < Len(heap)
                     /\ NumLess(heap[rightChild + 1].priority, heap[min1 + 1].priority)
                  THEN rightChild ELSE min1
  IN IF minIndex = index THEN heap
     ELSE ByValue(Swap(heap, index + 1, minIndex + 1), LAMBDA h : bubbleDown(h, minIndex))

\* a variant that appends the entry and leaves it where it is
PQPushNoBubble(heap, item, priority) ==
  Append(heap, [item |-> item, priority |-> priority])

\* a variant that, when the item is already queued, gives its entry the new
\* priority instead of adding a second entry
PQPushUpdating(heap, item, priority) ==
  IF \E k \in DOMAIN heap : heap[k].item = item
  THEN LET k == CHOOSE k \in DOMAIN heap : heap[k].item = item
       IN ByValue([heap EXCEPT ![k].priority = priority], LAMBDA h : bubbleUp(h, k - 1))
  ELSE ByValue(Append(heap, [item |-> item, priority |-> priority]),
               LAMBDA h : bubbleUp(h, Len(h) - 1))

PQPush(heap, item, priority) ==
  ByValue(Append(heap, [item |-> item, priority |-> priority]),
          LAMBDA h : bubbleUp(h, Len(h) - 1))

\* the item pop() returns, for a non-empty heap
PQPopItem(heap) == IF Len(heap) = 1 THEN heap[Len(heap)].item ELSE heap[1].item

\* the heap pop() leaves, for a non-empty heap
PQPopRest(heap) ==
  IF Len(heap) = 1 THEN << >>
  ELSE bubbleDown([SubSeq(heap, 1, Len(heap) - 1) EXCEPT ![1] = heap[Len(heap)]], 0)

PQIsEmpty(heap) == Len(heap) = 0

PQSize(heap) == Len(heap)

\* ------------------------------------------------------------------------
\* AStarRouter.  Node ids are strings in the program: a real node id n is
\* the tuple <<n>>, and the virtual id "n1_n2_0.dddd" of a snapped point is
\* the tuple <<n1, n2, dddd>>.  A SnappedPoint is a record
\* [location, nodeIds, interpolation], interpolation a numerator over TDen.
\* ------------------------------------------------------------------------

Real(n) == <<n>>

getVirtualNodeId(point) ==
  <<point.nodeIds[1], point.nodeIds[2], ToFixed4(point.interpolation)>>

\* JavaScript Map as a function with a growing domain
EmptyMap == [k \in {} |-> 0]

MapHas(m, k) == k \in DOMAIN m

MapSet(m, k, v) == [x \in (DOMAIN m) \cup {k} |-> IF x = k THEN v ELSE m[x]]

\* a variant that estimates every remaining time as Infinity
heuristicInfinity(from, to, mode) == Infinity

heuristic(from, to, mode) ==
  LET distance == haversineDistance(from, to)
      speed == IF mode = "car" THEN 50 ELSE IF mode = "bicycle" THEN 20 ELSE 5
  IN TravelTime(distance, speed)

\* edges.find(e => e.targetNodeId === toId): the index of the first match, 0 if none
RECURSIVE FindEdge(_, _, _)
FindEdge(edges, toId, i) ==
  IF i > Len(edges) THEN 0
  ELSE IF edges[i].targetNodeId = toId THEN i
  ELSE FindEdge(edges, toId, i + 1)

getEdgeCostBetweenNodes(network, fromId, toId, mode) ==
  LET edges == getNeighbors(network, fromId, mode)
      e == FindEdge(edges, toId, 1)
  IN IF e = 0
     THEN LET reverseEdges == getNeighbors(network, toId, mode)
              r == FindEdge(reverseEdges, fromId, 1)
          IN IF r # 0 THEN reverseEdges[r].cost ELSE Infinity
     ELSE edges[e].cost

\* the neighbour pushed for one edge out of the real node n
EdgeNeighbor(n, edge, destination) ==
  IF (destination.nodeIds[1] = n \/ destination.nodeIds[2] = n)
     /\ (destination.nodeIds[1] = edge.targetNodeId \/ destination.nodeIds[2] = edge.targetNodeId)
  THEN LET n1 == destination.nodeIds[1]
           n2 == destination.nodeIds[2]
           cost == IF n = n1 /\ edge.targetNodeId = n2
                     THEN FracMul(destination.interpolation, edge.cost)
                   ELSE IF n = n2 /\ edge.targetNodeId = n1
                     THEN FracMul(TDen - destination.interpolation, edge.cost)
                   ELSE FracMul(TDen \div 2, edge.cost)
       IN [nodeId |-> getVirtualNodeId(destination), cost |-> cost]
  ELSE [nodeId |-> Real(edge.targetNodeId), cost |-> edge.cost]

\* a variant with the two costs of the virtual origin exchanged
getNeighborsForNodeSwapped(network, nodeId, origin, destination, mode) ==
  IF nodeId = getVirtualNodeId(origin)
  THEN LET n1 == origin.nodeIds[1]
           n2 == origin.nodeIds[2]
           fullCost == getEdgeCostBetweenNodes(network, n1, n2, mode)
           costToN1 == FracMul(origin.interpolation, fullCost)
           costToN2 == FracMul(TDen - origin.interpolation, fullCost)
       IN <<[nodeId |-> Real(n1), cost |-> costToN2],
            [nodeId |-> Real(n2), cost |-> costToN1]>>
  ELSE IF nodeId = getVirtualNodeId(destination) THEN << >>
  ELSE LET edges == getNeighbors(network, nodeId[1], mode)
       IN [i \in 1..Len(edges) |-> EdgeNeighbor(nodeId[1], edges[i], destination)]

getNeighborsForNode(network, nodeId, origin, destination, mode) ==
  IF nodeId = getVirtualNodeId(origin)
  THEN LET n1 == origin.nodeIds[1]
           n2 == origin.nodeIds[2]
           fullCost == getEdgeCostBetweenNodes(network, n1, n2, mode)
           costToN1 == FracMul(origin.interpolation, fullCost)
           costToN2 == FracMul(TDen - origin.interpolation, fullCost)
       IN <<[nodeId |-> Real(n1), cost |-> costToN1],
            [nodeId |-> Real(n2), cost |-> costToN2]>>
  ELSE IF nodeId = getVirtualNodeId(destination) THEN << >>
  ELSE LET edges == getNeighbors(network, nodeId[1], mode)
       IN [i \in 1..Len(edges) |-> EdgeNeighbor(nodeId[1], edges[i], destination)]

getNodeLocation(network, nodeId, origin, destination) ==
  IF nodeId = getVirtualNodeId(origin) THEN origin.location
  ELSE IF nodeId = getVirtualNodeId(destination) THEN destination.location
  ELSE IF ~HasNode(network, nodeId[1]) THEN origin.location
  ELSE NodeLatLng(getNode(network, nodeId[1]))

\* a variant that stops at the ref whose parent has no parent: the path
\* lacks its first ref
RECURSIVE reconstructPathNoStart(_, _)
reconstructPathNoStart(cameFrom, current) ==
  IF MapHas(cameFrom, current) /\ MapHas(cameFrom, cameFrom[current])
  THEN Append(reconstructPathNoStart(cameFrom, cameFrom[current]), current)
  ELSE <<current>>

\* a variant with push for unshift: the path runs from the goal back to
\* the start
RECURSIVE reconstructPathPush(_, _)
reconstructPathPush(cameFrom, current) ==
  IF MapHas(cameFrom, current)
  THEN <<current>> \o reconstructPathPush(cameFrom, cameFrom[current])
  ELSE <<current>>

RECURSIVE reconstructPath(_, _)
reconstructPath(cameFrom, current) ==
  IF MapHas(cameFrom, current)
  THEN Append(reconstructPath(cameFrom, cameFrom[current]), current)
  ELSE <<current>>

\* The generator of findRoute: its position (pc), its arguments and its
\* local variables.  pc is "created" before the first next(), "explore"
\* while suspended at the yield of an explore step, "complete" at the yield
\* of the step of a found route, "exhausted" at the yield of the step of
\* an emptied open set, "done" after the generator has returned.
NoRef == << >>

findRoute(origin, destination, mode) ==
  [pc |-> "created", origin |-> origin, destination |-> destination, mode |-> mode,
   openSet |-> << >>, cameFrom |-> EmptyMap, gScore |-> EmptyMap, fScore |-> EmptyMap,
   closedSet |-> {}, current |-> NoRef]

\* a variant whose closed set is a field shared by the searches of a router
\* instead of a local of each search
InitializeShared(g) ==
  LET startId == getVirtualNodeId(g.origin)
      f == heuristic(g.origin.location, g.destination.location, g.mode)
  IN [g EXCEPT !.gScore = MapSet(EmptyMap, startId, 0),
               !.fScore = MapSet(EmptyMap, startId, f),
               !.openSet = PQPush(<< >>, startId, f),
               !.closedSet = UNION {gens[i].closedSet : i \in DOMAIN gens}]

\* lines "A* data structures" and "Initialize"
Initialize(g) ==
  LET startId == getVirtualNodeId(g.origin)
      f == heuristic(g.origin.location, g.destination.location, g.mode)
  IN [g EXCEPT !.gScore = MapSet(EmptyMap, startId, 0),
               !.fScore = MapSet(EmptyMap, startId, f),
               !.openSet = PQPush(<< >>, startId, f)]

\* map.get(k) || d
GetOr(m, k, d) == IF MapHas(m, k) THEN OrElse(m[k], d) ELSE d

ExploreStep(g, current) ==
  [type |-> "explore", nodeId |-> current,
   gScore |-> GetOr(g.gScore, current, 0), fScore |-> GetOr(g.fScore, current, 0)]

FoundStep(g) ==
  [type |-> "complete", path |-> reconstructPath(g.cameFrom, g.current),
   totalCost |-> g.gScore[g.current]]

\* a variant of the final step that reports a zero cost
NoPathStepZeroCost == [type |-> "complete", path |-> << >>, totalCost |-> 0]

NoPathStep == [type |-> "complete", path |-> << >>, totalCost |-> Infinity]

\* a variant that also consults the closed sets of the other searches
IsClosedShared(g, id) == id \in g.closedSet \cup UNION {gens[i].closedSet : i \in DOMAIN gens}

\* closedSet.has(id)
IsClosed(g, id) == id \in g.closedSet

\* a variant of the loop that returns without a final step when the open
\* set has emptied
RECURSIVE RunLoopNoFinalYield(_)
RunLoopNoFinalYield(g) ==
  IF PQIsEmpty(g.openSet)
  THEN [gen |-> [g EXCEPT !.pc = "done"], yielded |-> << >>]
  ELSE LET current == PQPopItem(g.openSet)
           g1 == [g EXCEPT !.openSet = PQPopRest(@)]
       IN ByValue(g1, LAMBDA v :
            IF IsClosed(v, current) THEN RunLoopNoFinalYield(v)
            ELSE [gen |-> [v EXCEPT !.pc = "explore", !.current = current],
                  yielded |-> <<ExploreStep(v, current)>>])

\* the while loop from its head to the next yield
RECURSIVE RunLoop(_)
RunLoop(g) ==
  IF PQIsEmpty(g.openSet)
  THEN [gen |-> [g EXCEPT !.pc = "exhausted"], yielded |-> <<NoPathStep>>]
  ELSE LET current == PQPopItem(g.openSet)
           g1 == [g EXCEPT !.openSet = PQPopRest(@)]
       IN ByValue(g1, LAMBDA v :
            IF IsClosed(v, current) THEN RunLoop(v)
            ELSE [gen |-> [v EXCEPT !.pc = "explore", !.current = current],
                  yielded |-> <<ExploreStep(v, current)>>])

\* (gScore.get(current) || Infinity) + cost
TentativeGScore(g, cost) == NumAdd(GetOr(g.gScore, g.current, Infinity), cost)

\* !gScore.has(nodeId) || tentativeGScore < gScore.get(nodeId)
IsBetter(g, nodeId, tentativeGScore) ==
  ~MapHas(g.gScore, nodeId) \/ NumLess(tentativeGScore, g.gScore[nodeId])

\* the for loop over the neighbours, from neighbour i on
RECURSIVE Relax(_, _, _, _)
Relax(network, g, neighbors, i) ==
  IF i > Len(neighbors) THEN g
  ELSE LET nodeId == neighbors[i].nodeId
           tentativeGScore == TentativeGScore(g, neighbors[i].cost)
       IN IF IsClosed(g, nodeId) THEN Relax(network, g, neighbors, i + 1)
          ELSE IF IsBetter(g, nodeId, tentativeGScore)
          THEN LET h == heuristic(getNodeLocation(network, nodeId, g.origin, g.destination),
                                  g.destination.location, g.mode)
                   f == NumAdd(tentativeGScore, h)
                   g1 == [g EXCEPT !.cameFrom = MapSet(@, nodeId, g.current),
                                   !.gScore = MapSet(@, nodeId, tentativeGScore),
                                   !.fScore = MapSet(@, nodeId, f),
                                   !.openSet = PQPush(@, nodeId, f)]
               IN ByValue(g1, LAMBDA v : Relax(network, v, neighbors, i + 1))
          ELSE Relax(network, g, neighbors, i + 1)

\* a variant without visited tracking: the expanded node is not closed and
\* every neighbour is pushed again (its parent pointer is kept)
RECURSIVE RelaxAlways(_, _, _, _)
RelaxAlways(network, g, neighbors, i) ==
  IF i > Len(neighbors) THEN g
  ELSE LET nodeId == neighbors[i].nodeId
           tentativeGScore == TentativeGScore(g, neighbors[i].cost)
           h == heuristic(getNodeLocation(network, nodeId, g.origin, g.destination),
                          g.destination.location, g.mode)
           f == NumAdd(tentativeGScore, h)
           g1 == [g EXCEPT !.cameFrom = IF MapHas(g.gScore, nodeId) THEN @
                                         ELSE MapSet(@, nodeId, g.current),
                           !.gScore = MapSet(@, nodeId, tentativeGScore),
                           !.fScore = MapSet(@, nodeId, f),
                           !.openSet = PQPush(@, nodeId, f)]
       IN RelaxAlways(network, g1, neighbors, i + 1)

AfterExploreNoVisited(network, g) ==
  IF g.current = getVirtualNodeId(g.destination)
  THEN [gen |-> [g EXCEPT !.pc = "complete"], yielded |-> <<FoundStep(g)>>]
  ELSE LET neighbors == getNeighborsForNode(network, g.current, g.origin, g.destination, g.mode)
       IN ByValue(neighbors, LAMBDA ns :
            ByValue(RelaxAlways(network, g, ns, 1), LAMBDA w : RunLoop(w)))

\* from the yield of an explore step to the next yield
AfterExplore(network, g) ==
  IF g.current = getVirtualNodeId(g.destination)
  THEN [gen |-> [g EXCEPT !.pc = "complete"], yielded |-> <<FoundStep(g)>>]
  ELSE LET g1 == [g EXCEPT !.closedSet = @ \cup {g.current}]
           neighbors == getNeighborsForNode(network, g.current, g.origin, g.destination, g.mode)
       IN ByValue(neighbors, LAMBDA ns :
            ByValue(g1, LAMBDA v : ByValue(Relax(network, v, ns, 1), LAMBDA w : RunLoop(w))))

\* a variant without the return after the step of a found route: the loop goes on
AfterCompleteNoReturn(network, g) ==
  IF g.pc = "complete"
  THEN LET g1 == [g EXCEPT !.closedSet = @ \cup {g.current}]
           neighbors == getNeighborsForNode(network, g.current, g.origin, g.destination, g.mode)
       IN ByValue(neighbors, LAMBDA ns :
            ByValue(g1, LAMBDA v : ByValue(Relax(network, v, ns, 1), LAMBDA w : RunLoop(w))))
  ELSE [gen |-> [g EXCEPT !.pc = "done"], yielded |-> << >>]

\* a variant with break for the return after the step of a found route: the
\* loop is left and the step of an emptied open set follows
AfterCompleteBreak(network, g) ==
  IF g.pc = "complete"
  THEN [gen |-> [g EXCEPT !.pc = "exhausted"], yielded |-> <<NoPathStep>>]
  ELSE [gen |-> [g EXCEPT !.pc = "done"], yielded |-> << >>]

\* from the yield of a complete step: return, or the end of the function
AfterComplete(network, g) == [gen |-> [g EXCEPT !.pc = "done"], yielded |-> << >>]

\* generator.next(): the generator afterwards and the step yielded (none when done)
GenNext(network, g) ==
  CASE g.pc = "created" -> ByValue(Initialize(g), LAMBDA v : RunLoop(v))
    [] g.pc = "explore" -> AfterExplore(network, g)
    [] g.pc \in {"complete", "exhausted"} -> AfterComplete(network, g)
    [] OTHER -> [gen |-> g, yielded |-> << >>]

\* ------------------------------------------------------------------------
\* MapMatcher
\* ------------------------------------------------------------------------

\* null, and a non-null value
None == << >>

Some(x) == <<x>>

\* the default of snapToRoad's maxRadius
MaxRadius == 100

\* a variant without the clamp of t to [0, 1]: the projection on the line
\* through the segment
pointToSegmentDistanceNoClamp(point, segmentStart, segmentEnd) ==
  LET dx == segmentEnd.lng - segmentStart.lng
      dy == segmentEnd.lat - segmentStart.lat
  IN IF dx = 0 /\ dy = 0
     THEN [distance |-> haversineDistance(point, segmentStart),
           closestPoint |-> segmentStart, t |-> 0]
     ELSE LET t == (((point.lng - segmentStart.lng) * dx
                     + (point.lat - segmentStart.lat) * dy) * TDen) \div (dx * dx + dy * dy)
              closestPoint == [lat |-> segmentStart.lat + (t * dy) \div TDen,
                               lng |-> segmentStart.lng + (t * dx) \div TDen]
          IN [distance |-> haversineDistance(point, closestPoint),
              closestPoint |-> closestPoint, t |-> t]

\* t is kept in units of 1 / TDen
pointToSegmentDistance(point, segmentStart, segmentEnd) ==
  LET dx == segmentEnd.lng - segmentStart.lng
      dy == segmentEnd.lat - segmentStart.lat
  IN IF dx = 0 /\ dy = 0
     THEN [distance |-> haversineDistance(point, segmentStart),
           closestPoint |-> segmentStart, t |-> 0]
     ELSE LET raw == (((point.lng - segmentStart.lng) * dx
                       + (point.lat - segmentStart.lat) * dy) * TDen) \div (dx * dx + dy * dy)
              t == IF raw < 0 THEN 0 ELSE IF raw > TDen THEN TDen ELSE raw
              closestPoint == [lat |-> segmentStart.lat + (t * dy) \div TDen,
                               lng |-> segmentStart.lng + (t * dx) \div TDen]
          IN [distance |-> haversineDistance(point, closestPoint),
              closestPoint |-> closestPoint, t |-> t]

\* the entries (fromId, edge) of getAllEdges() in iteration order, from key i on
RECURSIVE EdgeEntries(_, _)
EdgeEntries(adj, i) ==
  IF i > Len(adj.keys) THEN << >>
  ELSE [j \in 1..Len(adj.lists[i]) |-> [fromId |-> adj.keys[i], edge |-> adj.lists[i][j]]]
       \o EdgeEntries(adj, i + 1)

\* a variant that compares with <=: among segments at the same distance the
\* one found last wins
RECURSIVE SnapLoopLastWins(_, _, _, _, _, _)
SnapLoopLastWins(network, entries, point, mode, i, best) ==
  IF i > Len(entries) THEN best.bestMatch
  ELSE LET fromId == entries[i].fromId
           edge == entries[i].edge
       IN IF \/ ~HasNode(network, fromId)
             \/ mode \notin edge.validModes
             \/ ~HasNode(network, edge.targetNodeId)
          THEN SnapLoopLastWins(network, entries, point, mode, i + 1, best)
          ELSE LET result == pointToSegmentDistance(point, NodeLatLng(getNode(network, fromId)),
                                                    NodeLatLng(getNode(network, edge.targetNodeId)))
               IN IF result.distance <= best.minDistance
                  THEN SnapLoopLastWins(network, entries, point, mode, i + 1,
                                        [minDistance |-> result.distance,
                                         bestMatch |-> Some([location |-> result.closestPoint,
                                                             nodeIds |-> <<fromId, edge.targetNodeId>>,
                                                             interpolation |-> result.t])])
                  ELSE SnapLoopLastWins(network, entries, point, mode, i + 1, best)

\* the two loops of snapToRoad, from entry i on; best is [minDistance, bestMatch]
RECURSIVE SnapLoop(_, _, _, _, _, _)
SnapLoop(network, entries, point, mode, i, best) ==
  IF i > Len(entries) THEN best.bestMatch
  ELSE LET fromId == entries[i].fromId
           edge == entries[i].edge
       IN IF \/ ~HasNode(network, fromId)
             \/ mode \notin edge.validModes
             \/ ~HasNode(network, edge.targetNodeId)
          THEN SnapLoop(network, entries, point, mode, i + 1, best)
          ELSE LET result == pointToSegmentDistance(point, NodeLatLng(getNode(network, fromId)),
                                                    NodeLatLng(getNode(network, edge.targetNodeId)))
               IN IF result.distance < best.minDistance
                  THEN SnapLoop(network, entries, point, mode, i + 1,
                                [minDistance |-> result.distance,
                                 bestMatch |-> Some([location |-> result.closestPoint,
                                                     nodeIds |-> <<fromId, edge.targetNodeId>>,
                                                     interpolation |-> result.t])])
                  ELSE SnapLoop(network, entries, point, mode, i + 1, best)

snapToRoad(network, point, mode, maxRadius) ==
  SnapLoop(network, EdgeEntries(network.adjacencyList, 1), point, mode, 1,
           [minDistance |-> maxRadius, bestMatch |-> None])

\* ------------------------------------------------------------------------
\* AnimationController: [generator, animationFrameId, isPaused] and the
\* frame callbacks it has requested that are still to run (pending).  A
\* generator is named by its index in gens; 0 stands for null.
\* ------------------------------------------------------------------------

NewController == [generator |-> 0, animationFrameId |-> 0, isPaused |-> FALSE, pending |-> {}]

\* this.animationFrameId = requestAnimationFrame(this.animate)
RequestFrame(ctl) ==
  LET id == CHOOSE n \in 1..(Cardinality(ctl.pending) + 1) :
              n \notin ctl.pending /\ \A m \in 1..(n - 1) : m \in ctl.pending
  IN [ctl EXCEPT !.animationFrameId = id, !.pending = @ \cup {id}]

\* a variant of stop that keeps the generator
stopKeepsGenerator(ctl) ==
  [ctl EXCEPT !.pending = @ \ {ctl.animationFrameId}, !.animationFrameId = 0,
              !.isPaused = FALSE]

stop(ctl) ==
  [ctl EXCEPT !.pending = @ \ {ctl.animationFrameId}, !.animationFrameId = 0,
              !.generator = 0, !.isPaused = FALSE]

\* start: stop, take the generator, and animate(), which finds the delay
\* since lastFrameTime (just set) not elapsed and requests a frame
start(ctl, generator) ==
  RequestFrame([stop(ctl) EXCEPT !.generator = generator, !.isPaused = FALSE])

\* pause()
pause(ctl) == [ctl EXCEPT !.isPaused = TRUE]

\* resume(): nothing without a generator; else the pause flag is cleared,
\* lastFrameTime is set to now and animate() is called, which finds the
\* delay not elapsed and requests a frame
resume(ctl) ==
  IF ctl.generator = 0 THEN ctl ELSE RequestFrame([ctl EXCEPT !.isPaused = FALSE])

\* ------------------------------------------------------------------------
\* Inputs: parsed OSM data and snapped points
\* ------------------------------------------------------------------------

\* The 3x3 grid of the router's tests: nodes n1..n9, six horizontal and six
\* vertical two-node ways, all highway=residential.
GridNodes ==
  [n \in 1..9 |-> [id |-> n, lat |-> ((n - 1) \div 3) * GridStep,
                   lon |-> ((n - 1) % 3) * GridStep]]

GridWays ==
  [k \in 1..12 |->
     IF k <= 6
     THEN LET row == (k - 1) \div 2
              col == (k - 1) % 2
          IN [id |-> <<"w_h", row, col>>,
              nodeIds |-> <<row * 3 + col + 1, row * 3 + col + 2>>,
              tags |-> [highway |-> "residential"]]
     ELSE LET row == (k - 7) \div 3
              col == (k - 7) % 3
          IN [id |-> <<"w_v", row, col>>,
              nodeIds |-> <<row * 3 + col + 1, (row + 1) * 3 + col + 1>>,
              tags |-> [highway |-> "residential"]]]

GridParsed == [nodes |-> GridNodes, ways |-> GridWays]

\* Ladder maps: nodes 1..NumNodes in two rows, the odd nodes on one rail
\* (one way through all of them), the even nodes on the other, and a
\* residential rung between 2k-1 and 2k.  The tags of the two rails vary.
Kinds ==
  <<[highway |-> "residential"],
    [highway |-> "motorway", oneway |-> "yes"],
    [highway |-> "footway"]>>

LadderNodes ==
  [n \in 1..NumNodes |-> [id |-> n, lat |-> ((n - 1) % 2) * GridStep,
                          lon |-> ((n - 1) \div 2) * GridStep]]

LadderWays(ka, kb) ==
  <<[id |-> <<"rail", 1, 0>>, nodeIds |-> [k \in 1..((NumNodes + 1) \div 2) |-> 2 * k - 1],
     tags |-> Kinds[ka]],
    [id |-> <<"rail", 2, 0>>, nodeIds |-> [k \in 1..(NumNodes \div 2) |-> 2 * k],
     tags |-> Kinds[kb]]>>
  \o [k \in 1..(NumNodes \div 2) |->
        [id |-> <<"rung", k, 0>>, nodeIds |-> <<2 * k - 1, 2 * k>>,
         tags |-> [highway |-> "residential"]]]

LadderParsed(ka, kb) == [nodes |-> LadderNodes, ways |-> LadderWays(ka, kb)]

MapIds == {<<"grid", 0, 0>>} \cup {<<"ladder", ka, kb>> : ka \in 1..Len(Kinds), kb \in 1..Len(Kinds)}

\* Tagged maps: the nodes of a ladder, a way "main" whose tags and node list
\* vary, and a foot and cycle way "side" from node 2 to node 4.  Highway
\* values: in all three lists, car only, bicycle and pedestrian only, absent
\* (""), and in no list.  Oneway values: absent (""), the three values
\* isOneway accepts, and one it does not.
Highways == <<"residential", "motorway", "footway", "", "proposed">>

Oneways == <<"", "yes", "1", "true", "no">>

\* the tags Map of a way: a key is present when its value is not ""
TagsOf(highway, oneway) ==
  [k \in (IF highway = "" THEN {} ELSE {"highway"}) \cup (IF oneway = "" THEN {} ELSE {"oneway"})
     |-> IF k = "highway" THEN highway ELSE oneway]

\* node lists: three nodes in a row, a reference to a node that is not in
\* the node table (id 0) before a pair whose nodes are, a way that runs to a
\* node and back, a single node, a node listed twice in a row (a segment of
\* length zero from the node to itself), and such a pair followed by
\* another node
Shapes == <<<<1, 2, 3>>, <<1, 0, 2, 3>>, <<1, 2, 1>>, <<3>>, <<3, 3>>, <<3, 3, 2>>>>

TaggedWays(h, o, s) ==
  <<[id |-> <<"main", 0, 0>>, nodeIds |-> Shapes[s], tags |-> TagsOf(Highways[h], Oneways[o])],
    [id |-> <<"side", 0, 0>>, nodeIds |-> <<2, 4>>, tags |-> TagsOf("footway", "")]>>

TaggedMapIds ==
  {<<"tagged", h, o, s>> : h \in 1..Len(Highways), o \in 1..Len(Oneways), s \in 1..Len(Shapes)}

ParsedOf(mapId) ==
  IF mapId[1] = "grid" THEN GridParsed
  ELSE IF mapId[1] = "tagged"
  THEN [nodes |-> LadderNodes, ways |-> TaggedWays(mapId[2], mapId[3], mapId[4])]
  ELSE LadderParsed(mapId[2], mapId[3])

\* interpolation values: both ends, the middle, and two close fractions
\* (2/30000 and 3/30000) that differ but print alike with four decimals
Interpolations == {0, 2, 3, TDen \div 2, TDen}

\* the stored directed edges (from, to)
StoredSegments(network) ==
  LET adj == network.adjacencyList
  IN UNION {{<<adj.keys[i], adj.lists[i][j].targetNodeId>> : j \in 1..Len(adj.lists[i])} :
              i \in 1..Len(adj.keys)}

\* the point at fraction t / TDen of the segment (from, to), as snapToRoad
\* reports it: closestPoint = from + t * (to - from)
PointOnSegment(network, seg, t) ==
  LET from == network.nodes[seg[1]]
      to == network.nodes[seg[2]]
  IN [location |-> [lat |-> from.lat + (t * (to.lat - from.lat)) \div TDen,
                    lng |-> from.lon + (t * (to.lon - from.lon)) \div TDen],
      nodeIds |-> seg, interpolation |-> t]

\* the requests (origin, destination, mode) tried on a map: on the grid the
\* segments of the test scenario, on a ladder every pair of stored segments
OriginSegments(mapId, network) ==
  IF mapId[1] = "grid" THEN {<<1, 2>>} ELSE StoredSegments(network)

DestinationSegments(mapId, network) ==
  IF mapId[1] = "grid" THEN {<<8, 9>>} ELSE StoredSegments(network)

Requests(mapId, network) ==
  {[origin |-> PointOnSegment(network, so, to),
    destination |-> PointOnSegment(network, sd, td), mode |-> m] :
     so \in OriginSegments(mapId, network), to \in Interpolations,
     sd \in DestinationSegments(mapId, network), td \in Interpolations, m \in Modes}

\* a sample: the grid, and ladders with an all-mode rail and a car-only
\* one-way rail, with a car-only and a foot-only rail, and with two
\* foot-only rails; from the first segment of one rail (of the grid: (n1,n2))
\* to the first segment of the other (of the grid: (n8,n9))
SampleMapIds == {<<"grid", 0, 0>>, <<"ladder", 1, 2>>, <<"ladder", 2, 3>>, <<"ladder", 3, 3>>}

SampleRequests(mapId, network, ts) ==
  LET so == IF mapId[1] = "grid" THEN <<1, 2>> ELSE <<1, 3>>
      sd == IF mapId[1] = "grid" THEN <<8, 9>> ELSE <<2, 4>>
  IN {[origin |-> PointOnSegment(network, so, to),
       destination |-> PointOnSegment(network, sd, td), mode |-> m] :
        to \in ts, td \in ts, m \in Modes}

\* ------------------------------------------------------------------------
\* One search: a network is built, findRoute is called once and the caller
\* pulls the steps.
\* ------------------------------------------------------------------------

\* no call yet
NoCall == [op |-> "none"]

\* new PriorityQueue(), and no operation on it yet
NewQueue == [heap |-> << >>, log |-> << >>]

\* new StateManager()
InitialState ==
  [selectedFile |-> None, routingMode |-> "car", origin |-> None, destination |-> None,
   animationSpeed |-> 5, showOSMTiles |-> TRUE, theme |-> "light",
   isAnimating |-> FALSE, isLoading |-> FALSE]

\* this.listeners = new Map(), and no unsubscribe function returned yet
NoListeners == [map |-> [e \in {} |-> << >>], returned |-> {}]

\* the router is driven directly, as in its tests: there is no application
\* around it and the network is never rebuilt
NoApplication ==
  /\ state = InitialState
  /\ snappedOrigin = None
  /\ snappedDestination = None
  /\ controllers = << >>
  /\ parsing = << >>
  /\ built = [i \in DOMAIN gens |-> FALSE]
  /\ pulledStale = [i \in DOMAIN gens |-> FALSE]
  /\ lastCall = NoCall
  /\ pqueue = NewQueue
  /\ emitted = << >>
  /\ failed = {}
  /\ listeners = NoListeners

Init ==
  /\ loadedMap \in MapIds
  /\ roadNetwork = buildFromOSM(ParsedOf(loadedMap))
  /\ \E r \in Requests(loadedMap, roadNetwork) :
       gens = <<findRoute(r.origin, r.destination, r.mode)>>
  /\ steps = << << >> >>
  /\ NoApplication

\* a variant in which the search links its virtual start into the graph:
\* the first next() pushes an edge on the adjacency list of the origin's
\* first node
PullLinkingOrigin ==
  \E i \in DOMAIN gens :
    /\ gens[i].pc # "done"
    /\ LET r == GenNext(roadNetwork, gens[i])
       IN /\ gens' = [gens EXCEPT ![i] = r.gen]
          /\ steps' = [steps EXCEPT ![i] = @ \o r.yielded]
    /\ roadNetwork' =
         IF gens[i].pc = "created"
         THEN LET adj == roadNetwork.adjacencyList
                  origin == gens[i].origin
                  link == [targetNodeId |-> origin.nodeIds[2], cost |-> 0,
                           wayId |-> <<"virtual", 0, 0>>, isOneway |-> FALSE,
                           validModes |-> {gens[i].mode}]
              IN [roadNetwork EXCEPT !.adjacencyList.lists[AdjIndex(adj, origin.nodeIds[1])] =
                                       Append(@, link)]
         ELSE roadNetwork
    /\ UNCHANGED <<loadedMap, appVars>>

\* generator.next() on a generator that has not returned
Pull ==
  \E i \in DOMAIN gens :
    /\ gens[i].pc # "done"
    /\ LET r == GenNext(roadNetwork, gens[i])
       IN /\ gens' = [gens EXCEPT ![i] = r.gen]
          /\ steps' = [steps EXCEPT ![i] = @ \o r.yielded]
    /\ UNCHANGED <<loadedMap, roadNetwork, appVars>>

\* generator.next() on a generator that has returned: { done: true }
PullDone ==
  \E i \in DOMAIN gens :
    /\ gens[i].pc = "done"
    /\ gens' = [gens EXCEPT ![i] = GenNext(roadNetwork, gens[i]).gen]
    /\ UNCHANGED <<loadedMap, roadNetwork, steps, appVars>>

Next ==
  \/ Pull
  \/ PullDone

Spec == Init /\ [][Next]_vars

\* A caller that keeps pulling, as the loop of the router's tests does
\* (for await (const step of generator)), on a sample of the requests.
FairInit ==
  /\ loadedMap \in SampleMapIds
  /\ roadNetwork = buildFromOSM(ParsedOf(loadedMap))
  /\ \E r \in SampleRequests(loadedMap, roadNetwork, {0, TDen \div 2, TDen}) :
       gens = <<findRoute(r.origin, r.destination, r.mode)>>
  /\ steps = << << >> >>
  /\ NoApplication

FairSpec == FairInit /\ [][Next]_vars /\ WF_vars(Pull)

\* ------------------------------------------------------------------------
\* Two searches over the same network, their pulls interleaved in any order
\* ------------------------------------------------------------------------

PairInit ==
  /\ loadedMap \in SampleMapIds
  /\ roadNetwork = buildFromOSM(ParsedOf(loadedMap))
  /\ \E r1, r2 \in SampleRequests(loadedMap, roadNetwork, {0, TDen \div 2}) :
       gens = <<findRoute(r1.origin, r1.destination, r1.mode),
                findRoute(r2.origin, r2.destination, r2.mode)>>
  /\ steps = << << >>, << >> >>
  /\ NoApplication

PairSpec == PairInit /\ [][Next]_vars

\* the steps a generator yields from its state g on when it alone is pulled
\* until it returns
RECURSIVE RunAlone(_, _)
RunAlone(network, g) ==
  IF g.pc = "done" THEN << >>
  ELSE LET r == GenNext(network, g)
       IN r.yielded \o RunAlone(network, r.gen)

\* s is an initial part of t
IsPrefix(s, t) == Len(s) <= Len(t) /\ \A k \in 1..Len(s) : s[k] = t[k]

\* the inputs of a generator
InputsOf(g) == <<g.origin, g.destination, g.mode>>

\* ------------------------------------------------------------------------
\* The application: files are selected and loaded, the map is clicked, the
\* routing mode is changed, and the browser runs the animation frames.
\* ------------------------------------------------------------------------

MaxLoads == 2

MaxSearches == 2

\* the files offered: a ladder of all-mode ways, and a map of footways only
AppMapIds == {<<"ladder", 1, 1>>, <<"tagged", 3, 1, 1>>}

\* the points clicked: on the first rail, on the second rail, far from any road
ClickPoints ==
  {[lat |-> 0, lng |-> GridStep \div 4], [lat |-> GridStep, lng |-> GridStep \div 2],
   [lat |-> 5 * GridStep, lng |-> 5 * GridStep]}

\* new RoadNetwork()
EmptyNetwork == [nodes |-> << >>, adjacencyList |-> [keys |-> << >>, lists |-> << >>]]

RemoveAt(s, k) == [j \in 1..(Len(s) - 1) |-> IF j < k THEN s[j] ELSE s[j + 1]]

AppInit ==
  /\ loadedMap = None
  /\ roadNetwork = EmptyNetwork
  /\ gens = << >>
  /\ steps = << >>
  /\ state = InitialState
  /\ snappedOrigin = None
  /\ snappedDestination = None
  /\ controllers = << >>
  /\ parsing = << >>
  /\ built = << >>
  /\ pulledStale = << >>
  /\ lastCall = NoCall
  /\ pqueue = NewQueue
  /\ emitted = << >>
  /\ failed = {}
  /\ listeners = NoListeners

\* the events emitted with emit() by the application and its controllers
ErrorEvent(message) == [event |-> "error", message |-> message]

RoutingStarted == [event |-> "routing-started"]

RoutingComplete(step) ==
  [event |-> "routing-complete", path |-> step.path, totalCost |-> step.totalCost]

\* the change handler of the file selector: setState({selectedFile, isLoading:
\* true}), which emits 'file-selected' when the file differs from the selected
\* one; the handler of that event runs up to its await of parseFile
SelectFile ==
  \E f \in AppMapIds :
    /\ Len(controllers) + Len(parsing) < MaxLoads
    /\ state' = [state EXCEPT !.selectedFile = Some(f), !.isLoading = TRUE]
    /\ parsing' = IF Some(f) # state.selectedFile THEN Append(parsing, f) ELSE parsing
    /\ emitted' = << >>
    /\ UNCHANGED <<loadedMap, roadNetwork, gens, steps, snappedOrigin, snappedDestination,
                   controllers, built, pulledStale, lastCall, pqueue, failed, listeners>>

\* parseFile resolves: the rest of the try block of the 'file-selected' handler
LoadSucceeds ==
  \E k \in DOMAIN parsing :
    /\ roadNetwork' = buildFromOSM(ParsedOf(parsing[k]))
    /\ loadedMap' = parsing[k]
    /\ controllers' = Append(controllers, NewController)
    /\ state' = [state EXCEPT !.isLoading = FALSE, !.origin = None, !.destination = None]
    /\ snappedOrigin' = None
    /\ snappedDestination' = None
    /\ parsing' = RemoveAt(parsing, k)
    /\ built' = [i \in DOMAIN gens |-> TRUE]
    /\ emitted' = << >>
    /\ failed' = failed \ {parsing[k]}
    /\ UNCHANGED <<gens, steps, pulledStale, lastCall, pqueue, listeners>>

\* parseFile rejects: the catch block of the 'file-selected' handler
LoadFails ==
  \E k \in DOMAIN parsing :
    /\ state' = [state EXCEPT !.isLoading = FALSE]
    /\ parsing' = RemoveAt(parsing, k)
    /\ emitted' = <<ErrorEvent("Failed to load map")>>
    /\ failed' = failed \cup {parsing[k]}
    /\ UNCHANGED <<loadedMap, roadNetwork, gens, steps, snappedOrigin, snappedDestination,
                   controllers, built, pulledStale, lastCall, pqueue, listeners>>

\* calculateRoute with the snapped points origin and destination (null or
\* not), from the state st: findRoute, then start on the current controller
calculateRoute(origin, destination, st) ==
  IF origin = None \/ destination = None \/ Len(controllers) = 0
  THEN /\ state' = st
       /\ emitted' = << >>
       /\ UNCHANGED <<gens, steps, controllers, built, pulledStale>>
  ELSE /\ emitted' = <<RoutingStarted>>
       /\ gens' = Append(gens, findRoute(origin[1], destination[1], st.routingMode))
       /\ steps' = Append(steps, << >>)
       /\ built' = Append(built, FALSE)
       /\ pulledStale' = Append(pulledStale, FALSE)
       /\ controllers' = [controllers EXCEPT ![Len(controllers)] = start(@, Len(gens) + 1)]
       /\ state' = [st EXCEPT !.isAnimating = TRUE]

\* a variant whose third branch sets the new origin and does not clear the
\* snapped destination
handleMapClickKeepsDestination(point) ==
  IF Len(controllers) = 0
  THEN /\ emitted' = <<ErrorEvent("Please load a map first")>>
       /\ UNCHANGED <<loadedMap, roadNetwork, gens, steps, state, snappedOrigin,
                      snappedDestination, controllers, parsing, built, pulledStale,
                      lastCall, pqueue, failed, listeners>>
  ELSE LET snapped == snapToRoad(roadNetwork, point, state.routingMode, MaxRadius)
       IN IF snapped = None
          THEN /\ emitted' = <<ErrorEvent("Click closer to a road")>>
               /\ UNCHANGED <<loadedMap, roadNetwork, gens, steps, state, snappedOrigin,
                              snappedDestination, controllers, parsing, built, pulledStale,
                              lastCall, pqueue, failed, listeners>>
          ELSE IF state.origin = None
          THEN /\ snappedOrigin' = snapped
               /\ state' = [state EXCEPT !.origin = Some(snapped[1].location)]
               /\ emitted' = << >>
               /\ UNCHANGED <<loadedMap, roadNetwork, gens, steps, snappedDestination,
                              controllers, parsing, built, pulledStale, lastCall, pqueue,
                              failed, listeners>>
          ELSE IF state.destination = None
          THEN /\ snappedDestination' = snapped
               /\ calculateRoute(snappedOrigin, snapped,
                                 [state EXCEPT !.destination = Some(snapped[1].location)])
               /\ UNCHANGED <<loadedMap, roadNetwork, snappedOrigin, parsing, lastCall,
                              pqueue, failed, listeners>>
          ELSE /\ snappedOrigin' = snapped
               /\ state' = [state EXCEPT !.origin = Some(snapped[1].location),
                                         !.destination = None]
               /\ emitted' = << >>
               /\ UNCHANGED <<loadedMap, roadNetwork, gens, steps, snappedDestination,
                              controllers, parsing, built, pulledStale, lastCall, pqueue,
                              failed, listeners>>

\* a variant that forgets the origin when the click is far from every road
handleMapClickForgetsOrigin(point) ==
  IF Len(controllers) = 0
  THEN /\ emitted' = <<ErrorEvent("Please load a map first")>>
       /\ UNCHANGED <<loadedMap, roadNetwork, gens, steps, state, snappedOrigin,
                      snappedDestination, controllers, parsing, built, pulledStale,
                      lastCall, pqueue, failed, listeners>>
  ELSE LET snapped == snapToRoad(roadNetwork, point, state.routingMode, MaxRadius)
       IN IF snapped = None
          THEN /\ emitted' = <<ErrorEvent("Click closer to a road")>>
               /\ snappedOrigin' = None
               /\ state' = [state EXCEPT !.origin = None]
               /\ UNCHANGED <<loadedMap, roadNetwork, gens, steps, snappedDestination,
                              controllers, parsing, built, pulledStale, lastCall, pqueue,
                              failed, listeners>>
          ELSE IF state.origin = None
          THEN /\ snappedOrigin' = snapped
               /\ state' = [state EXCEPT !.origin = Some(snapped[1].location)]
               /\ emitted' = << >>
               /\ UNCHANGED <<loadedMap, roadNetwork, gens, steps, snappedDestination,
                              controllers, parsing, built, pulledStale, lastCall, pqueue,
                              failed, listeners>>
          ELSE IF state.destination = None
          THEN /\ snappedDestination' = snapped
               /\ calculateRoute(snappedOrigin, snapped,
                                 [state EXCEPT !.destination = Some(snapped[1].location)])
               /\ UNCHANGED <<loadedMap, roadNetwork, snappedOrigin, parsing, lastCall,
                              pqueue, failed, listeners>>
          ELSE /\ snappedOrigin' = snapped
               /\ snappedDestination' = None
               /\ state' = [state EXCEPT !.origin = Some(snapped[1].location),
                                         !.destination = None]
               /\ emitted' = << >>
               /\ UNCHANGED <<loadedMap, roadNetwork, gens, steps, controllers, parsing,
                              built, pulledStale, lastCall, pqueue, failed, listeners>>

\* handleMapClick(lngLat)
handleMapClick(point) ==
  IF Len(controllers) = 0
  THEN /\ emitted' = <<ErrorEvent("Please load a map first")>>
       /\ UNCHANGED <<loadedMap, roadNetwork, gens, steps, state, snappedOrigin,
                      snappedDestination, controllers, parsing, built, pulledStale,
                      lastCall, pqueue, failed, listeners>>
  ELSE LET snapped == snapToRoad(roadNetwork, point, state.routingMode, MaxRadius)
       IN IF snapped = None
          THEN /\ emitted' = <<ErrorEvent("Click closer to a road")>>
               /\ UNCHANGED <<loadedMap, roadNetwork, gens, steps, state, snappedOrigin,
                              snappedDestination, controllers, parsing, built, pulledStale,
                              lastCall, pqueue, failed, listeners>>
          ELSE IF state.origin = None
          THEN /\ snappedOrigin' = snapped
               /\ state' = [state EXCEPT !.origin = Some(snapped[1].location)]
               /\ emitted' = << >>
               /\ UNCHANGED <<loadedMap, roadNetwork, gens, steps, snappedDestination,
                              controllers, parsing, built, pulledStale, lastCall, pqueue,
                              failed, listeners>>
          ELSE IF state.destination = None
          THEN /\ snappedDestination' = snapped
               /\ calculateRoute(snappedOrigin, snapped,
                                 [state EXCEPT !.destination = Some(snapped[1].location)])
               /\ UNCHANGED <<loadedMap, roadNetwork, snappedOrigin, parsing, lastCall,
                              pqueue, failed, listeners>>
          ELSE /\ snappedOrigin' = snapped
               /\ snappedDestination' = None
               /\ state' = [state EXCEPT !.origin = Some(snapped[1].location),
                                         !.destination = None]
               /\ emitted' = << >>
               /\ UNCHANGED <<loadedMap, roadNetwork, gens, steps, controllers, parsing,
                              built, pulledStale, lastCall, pqueue, failed, listeners>>

\* the user clicks the map
Click ==
  \E point \in ClickPoints :
    /\ Len(gens) < MaxSearches
    /\ handleMapClick(point)

\* a variant that stores the results of the re-snaps before testing them
recalculateRouteStoresNull(st) ==
  LET newOrigin == snapToRoad(roadNetwork, snappedOrigin[1].location, st.routingMode,
                              MaxRadius)
      newDestination == snapToRoad(roadNetwork, snappedDestination[1].location,
                                   st.routingMode, MaxRadius)
  IN IF newOrigin = None \/ newDestination = None
     THEN /\ state' = st
          /\ emitted' = <<ErrorEvent("Points not valid for this routing mode")>>
          /\ snappedOrigin' = newOrigin
          /\ snappedDestination' = newDestination
          /\ UNCHANGED <<loadedMap, roadNetwork, gens, steps, controllers, parsing, built,
                         pulledStale, lastCall, pqueue, failed, listeners>>
     ELSE /\ snappedOrigin' = newOrigin
          /\ snappedDestination' = newDestination
          /\ calculateRoute(newOrigin, newDestination, st)
          /\ UNCHANGED <<loadedMap, roadNetwork, parsing, lastCall, pqueue, failed, listeners>>

\* recalculateRoute, from the state st
recalculateRoute(st) ==
  LET newOrigin == snapToRoad(roadNetwork, snappedOrigin[1].location, st.routingMode,
                              MaxRadius)
      newDestination == snapToRoad(roadNetwork, snappedDestination[1].location,
                                   st.routingMode, MaxRadius)
  IN IF newOrigin = None \/ newDestination = None
     THEN /\ state' = st
          /\ emitted' = <<ErrorEvent("Points not valid for this routing mode")>>
          /\ UNCHANGED <<loadedMap, roadNetwork, gens, steps, snappedOrigin,
                         snappedDestination, controllers, parsing, built, pulledStale,
                         lastCall, pqueue, failed, listeners>>
     ELSE /\ snappedOrigin' = newOrigin
          /\ snappedDestination' = newDestination
          /\ calculateRoute(newOrigin, newDestination, st)
          /\ UNCHANGED <<loadedMap, roadNetwork, parsing, lastCall, pqueue, failed, listeners>>

\* the mode selector: setState({routingMode}), which emits 'mode-changed'
\* when the mode differs; its handler calls recalculateRoute when both
\* snapped points are set
setRoutingMode(mode) ==
  LET st == [state EXCEPT !.routingMode = mode]
  IN IF mode = state.routingMode \/ snappedOrigin = None \/ snappedDestination = None
     THEN /\ state' = st
          /\ emitted' = << >>
          /\ UNCHANGED <<loadedMap, roadNetwork, gens, steps, snappedOrigin,
                         snappedDestination, controllers, parsing, built, pulledStale,
                         lastCall, pqueue, failed, listeners>>
     ELSE recalculateRoute(st)

\* the user picks a routing mode
ChangeMode ==
  \E mode \in Modes :
    /\ Len(gens) < MaxSearches
    /\ setRoutingMode(mode)

\* animate(), run as the frame callback id of a controller.  elapsed tells
\* whether now - lastFrameTime has reached the delay.
animate(c, id, elapsed) ==
  LET ctl == [controllers[c] EXCEPT !.pending = @ \ {id}]
  IN IF ctl.generator = 0 \/ ctl.isPaused
     THEN /\ controllers' = [controllers EXCEPT ![c] = ctl]
          /\ emitted' = << >>
          /\ UNCHANGED <<loadedMap, roadNetwork, gens, steps, state, snappedOrigin,
                         snappedDestination, parsing, built, pulledStale, lastCall,
                         pqueue, failed, listeners>>
     ELSE IF ~elapsed
     THEN /\ controllers' = [controllers EXCEPT ![c] = RequestFrame(ctl)]
          /\ emitted' = << >>
          /\ UNCHANGED <<loadedMap, roadNetwork, gens, steps, state, snappedOrigin,
                         snappedDestination, parsing, built, pulledStale, lastCall,
                         pqueue, failed, listeners>>
     ELSE LET result == GenNext(roadNetwork, gens[ctl.generator])
          IN /\ gens' = [gens EXCEPT ![ctl.generator] = result.gen]
             /\ steps' = [steps EXCEPT ![ctl.generator] = @ \o result.yielded]
             /\ pulledStale' = [pulledStale EXCEPT ![ctl.generator] = @ \/ built[ctl.generator]]
             /\ IF result.yielded = << >>
                THEN /\ controllers' = [controllers EXCEPT ![c] = stop(ctl)]
                     /\ state' = [state EXCEPT !.isAnimating = FALSE]
                     /\ emitted' = << >>
                ELSE IF result.yielded[1].type = "complete"
                THEN /\ controllers' = [controllers EXCEPT ![c] = stop(ctl)]
                     /\ state' = [state EXCEPT !.isAnimating = FALSE]
                     /\ emitted' = <<RoutingComplete(result.yielded[1])>>
                ELSE /\ controllers' = [controllers EXCEPT ![c] = RequestFrame(ctl)]
                     /\ emitted' = << >>
                     /\ UNCHANGED state
             /\ UNCHANGED <<loadedMap, roadNetwork, snappedOrigin, snappedDestination,
                            parsing, built, lastCall, pqueue, failed, listeners>>

\* the browser runs a pending frame callback of a controller
AnimationFrame ==
  \E c \in DOMAIN controllers :
    \E id \in controllers[c].pending, elapsed \in BOOLEAN :
      animate(c, id, elapsed)

AppNext ==
  \/ SelectFile
  \/ LoadSucceeds
  \/ LoadFails
  \/ Click
  \/ ChangeMode
  \/ AnimationFrame

AppSpec == AppInit /\ [][AppNext]_vars

\* ------------------------------------------------------------------------
\* The application up to and on its first map: a file is selected while
\* none is loaded or being loaded, and once a load has succeeded the map is
\* clicked, the mode is changed and the animation frames run.
\* ------------------------------------------------------------------------

SelectFirstFile ==
  /\ controllers = << >>
  /\ parsing = << >>
  /\ SelectFile

FirstMapNext ==
  \/ SelectFirstFile
  \/ LoadSucceeds
  \/ LoadFails
  \/ Click
  \/ ChangeMode
  \/ AnimationFrame

FirstMapSpec == AppInit /\ [][FirstMapNext]_vars

\* the same with the promise of parseFile always settling: a call in flight
\* is eventually resolved or rejected
FairFirstMapSpec == FirstMapSpec /\ WF_vars(LoadFails \/ LoadSucceeds)

\* ------------------------------------------------------------------------
\* One AnimationController driven directly: start with a new search, pause,
\* resume and stop are called in any order while the browser runs the
\* frame callbacks.  lastCall keeps the last of these calls.
\* ------------------------------------------------------------------------

\* the most frame callbacks of the controller pending when resume is called
MaxPending == 2

ControllerInit ==
  /\ loadedMap = <<"ladder", 1, 1>>
  /\ roadNetwork = buildFromOSM(ParsedOf(loadedMap))
  /\ gens = << >>
  /\ steps = << >>
  /\ state = InitialState
  /\ snappedOrigin = None
  /\ snappedDestination = None
  /\ controllers = <<NewController>>
  /\ parsing = << >>
  /\ built = << >>
  /\ pulledStale = << >>
  /\ lastCall = NoCall
  /\ pqueue = NewQueue
  /\ emitted = << >>
  /\ failed = {}
  /\ listeners = NoListeners

\* controller.start(router.findRoute(origin, destination, mode), speed)
StartCall ==
  \E r \in SampleRequests(loadedMap, roadNetwork, {0}) :
    /\ Len(gens) < MaxSearches
    /\ gens' = Append(gens, findRoute(r.origin, r.destination, r.mode))
    /\ steps' = Append(steps, << >>)
    /\ built' = Append(built, FALSE)
    /\ pulledStale' = Append(pulledStale, FALSE)
    /\ controllers' = [controllers EXCEPT ![1] = start(@, Len(gens) + 1)]
    /\ state' = [state EXCEPT !.isAnimating = TRUE]
    /\ lastCall' = [op |-> "start"]
    /\ emitted' = << >>
    /\ UNCHANGED <<loadedMap, roadNetwork, snappedOrigin, snappedDestination, parsing,
                   pqueue, failed, listeners>>

\* controller.pause()
PauseCall ==
  /\ controllers' = [controllers EXCEPT ![1] = pause(@)]
  /\ lastCall' = [op |-> "pause"]
  /\ emitted' = << >>
  /\ UNCHANGED <<loadedMap, roadNetwork, gens, steps, state, snappedOrigin,
                 snappedDestination, parsing, built, pulledStale, pqueue, failed, listeners>>

\* controller.resume()
ResumeCall ==
  /\ Cardinality(controllers[1].pending) < MaxPending
  /\ controllers' = [controllers EXCEPT ![1] = resume(@)]
  /\ lastCall' = [op |-> "resume"]
  /\ emitted' = << >>
  /\ UNCHANGED <<loadedMap, roadNetwork, gens, steps, state, snappedOrigin,
                 snappedDestination, parsing, built, pulledStale, pqueue, failed, listeners>>

\* controller.stop()
StopCall ==
  /\ controllers' = [controllers EXCEPT ![1] = stop(@)]
  /\ state' = [state EXCEPT !.isAnimating = FALSE]
  /\ lastCall' = [op |-> "stop"]
  /\ emitted' = << >>
  /\ UNCHANGED <<loadedMap, roadNetwork, gens, steps, snappedOrigin, snappedDestination,
                 parsing, built, pulledStale, pqueue, failed, listeners>>

ControllerNext ==
  \/ StartCall
  \/ PauseCall
  \/ ResumeCall
  \/ StopCall
  \/ AnimationFrame

ControllerSpec == ControllerInit /\ [][ControllerNext]_vars

\* ------------------------------------------------------------------------
\* StateManager driven directly: setState, subscribe and the unsubscribe
\* functions subscribe returned are called in any order.  A callback does
\* nothing but get called.  lastCall keeps the last call, for setState with
\* the callbacks it invoked, in order; emitted keeps the events it emitted.
\* ------------------------------------------------------------------------

\* the value undefined, written for each field by a value of the field's
\* kind that is no value of the field: a tuple that is neither None nor
\* Some(x), a string, a number that is no speed
undefined ==
  [selectedFile |-> <<"undefined", "undefined">>, routingMode |-> "undefined",
   origin |-> <<"undefined", "undefined">>, destination |-> <<"undefined", "undefined">>,
   animationSpeed |-> 0, theme |-> "undefined"]

\* the fields with an event of their own, in the order setState tests them
SpecificEvents ==
  <<[field |-> "selectedFile", event |-> "file-selected"],
    [field |-> "routingMode", event |-> "mode-changed"],
    [field |-> "origin", event |-> "origin-set"],
    [field |-> "destination", event |-> "destination-set"],
    [field |-> "animationSpeed", event |-> "animation-speed-changed"],
    [field |-> "theme", event |-> "theme-changed"]>>

\* listeners.get(event), as the sequence of its callbacks in insertion order
CallbacksOf(ls, event) == IF event \in DOMAIN ls.map THEN ls.map[event] ELSE << >>

\* subscribe(event, callback): the callback is added to the Set of the event
subscribe(ls, event, callback) ==
  LET callbacks == CallbacksOf(ls, event)
  IN [map |-> [e \in DOMAIN ls.map \cup {event} |->
                 IF e # event THEN ls.map[e]
                 ELSE IF \E k \in DOMAIN callbacks : callbacks[k] = callback
                 THEN callbacks
                 ELSE Append(callbacks, callback)],
      returned |-> ls.returned \cup {<<event, callback>>}]

\* the function subscribe(event, callback) returned: callbacks.delete(callback)
unsubscribe(ls, event, callback) ==
  [ls EXCEPT !.map = [e \in DOMAIN ls.map |->
                        IF e = event THEN SelectSeq(ls.map[e], LAMBDA f : f # callback)
                        ELSE ls.map[e]]]

\* emit(event, data): the calls made, in order
emit(ls, event, data) ==
  LET callbacks == CallbacksOf(ls, event)
  IN [k \in DOMAIN callbacks |-> [callback |-> callbacks[k], event |-> event, data |-> data]]

\* a variant that does not test the provided value against undefined
setStateEmitsUndefined(st, updates) ==
  LET merged == [k \in DOMAIN st |-> IF k \in DOMAIN updates THEN updates[k] ELSE st[k]]
      Emits(i) ==
        LET k == SpecificEvents[i].field
        IN k \in DOMAIN updates /\ updates[k] # st[k]
      RECURSIVE From(_)
      From(i) ==
        IF i > Len(SpecificEvents) THEN << >>
        ELSE (IF Emits(i)
              THEN <<[event |-> SpecificEvents[i].event,
                      data |-> updates[SpecificEvents[i].field]]>>
              ELSE << >>) \o From(i + 1)
  IN [state |-> merged,
      events |-> <<[event |-> "state-changed", data |-> merged]>> \o From(1)]

\* setState(updates) on the state st: the new state and the events emitted
setState(st, updates) ==
  LET merged == [k \in DOMAIN st |-> IF k \in DOMAIN updates THEN updates[k] ELSE st[k]]
      Emits(i) ==
        LET k == SpecificEvents[i].field
        IN k \in DOMAIN updates /\ updates[k] # undefined[k] /\ updates[k] # st[k]
      RECURSIVE From(_)
      From(i) ==
        IF i > Len(SpecificEvents) THEN << >>
        ELSE (IF Emits(i)
              THEN <<[event |-> SpecificEvents[i].event,
                      data |-> updates[SpecificEvents[i].field]]>>
              ELSE << >>) \o From(i + 1)
  IN [state |-> merged,
      events |-> <<[event |-> "state-changed", data |-> merged]>> \o From(1)]

\* the updates passed: those of the file selector, the load handler, a mode
\* button and the click handler; one that provides a field as undefined;
\* one that provides all six fields that have an event; and the empty one.
\* Two LatLng objects are passed: they hold the same coordinates and are
\* different objects.
StateUpdates ==
  LET p == [object |-> 1, lat |-> 0, lng |-> 0]
      q == [object |-> 2, lat |-> 0, lng |-> 0]
  IN <<[selectedFile |-> Some("a.osm.gz"), isLoading |-> TRUE],
       [isLoading |-> FALSE, origin |-> None, destination |-> None],
       [routingMode |-> "bicycle"],
       [origin |-> Some(p)],
       [origin |-> Some(q), destination |-> None],
       [routingMode |-> undefined.routingMode, theme |-> "light"],
       [selectedFile |-> Some("b.osm.gz"), routingMode |-> "pedestrian", origin |-> Some(q),
        destination |-> Some(q), animationSpeed |-> 7, theme |-> "dark"],
       [k \in {} |-> 0]>>

\* the events subscribed to, with the callbacks
Subscriptions ==
  {<<"state-changed", "f">>, <<"mode-changed", "f">>, <<"mode-changed", "g">>}

StateInit ==
  /\ loadedMap = <<"grid", 0, 0>>
  /\ roadNetwork = EmptyNetwork
  /\ gens = << >>
  /\ steps = << >>
  /\ NoApplication

\* stateManager.setState(updates)
SetStateCall ==
  \E i \in DOMAIN StateUpdates :
    LET result == setState(state, StateUpdates[i])
        RECURSIVE Invoked(_)
        Invoked(k) ==
          IF k > Len(result.events) THEN << >>
          ELSE emit(listeners, result.events[k].event, result.events[k].data)
               \o Invoked(k + 1)
    IN /\ state' = result.state
       /\ emitted' = result.events
       /\ lastCall' = [op |-> "setState", updates |-> StateUpdates[i],
                       invoked |-> Invoked(1)]
       /\ UNCHANGED <<loadedMap, roadNetwork, gens, steps, snappedOrigin,
                      snappedDestination, controllers, parsing, built, pulledStale,
                      pqueue, failed, listeners>>

\* stateManager.subscribe(event, callback)
SubscribeCall ==
  \E sub \in Subscriptions :
    /\ listeners' = subscribe(listeners, sub[1], sub[2])
    /\ lastCall' = [op |-> "subscribe", event |-> sub[1], callback |-> sub[2]]
    /\ emitted' = << >>
    /\ UNCHANGED <<loadedMap, roadNetwork, gens, steps, state, snappedOrigin,
                   snappedDestination, controllers, parsing, built, pulledStale,
                   pqueue, failed>>

\* a function that subscribe returned is called
UnsubscribeCall ==
  \E sub \in listeners.returned :
    /\ listeners' = unsubscribe(listeners, sub[1], sub[2])
    /\ lastCall' = [op |-> "unsubscribe", event |-> sub[1], callback |-> sub[2]]
    /\ emitted' = << >>
    /\ UNCHANGED <<loadedMap, roadNetwork, gens, steps, state, snappedOrigin,
                   snappedDestination, controllers, parsing, built, pulledStale,
                   pqueue, failed>>

StateNext ==
  \/ SetStateCall
  \/ SubscribeCall
  \/ UnsubscribeCall

StateSpec == StateInit /\ [][StateNext]_vars

\* ------------------------------------------------------------------------
\* The RoadNetwork and the MapMatcher driven directly: a network is built
\* from a tagged map, its neighbours are queried, points are snapped, and a
\* search between two snapped points is run.
\* ------------------------------------------------------------------------

\* the points snapped: at exactly MaxRadius from the segment (1,2), near its
\* middle, at the same distance from the segments that meet at node 2, on
\* the side way, far from every road, and on the segment (2,3)
SnapPoints ==
  {[lat |-> GridStep \div 2, lng |-> 0 - MaxRadius],
   [lat |-> GridStep \div 2, lng |-> 0 - 30],
   [lat |-> GridStep + 50, lng |-> 0 - 50],
   [lat |-> GridStep, lng |-> GridStep \div 2],
   [lat |-> 5 * GridStep, lng |-> 5 * GridStep],
   [lat |-> 30, lng |-> GridStep - 30]}

\* the values of maxRadius: the default and a smaller one
Radii == {MaxRadius, MaxRadius \div 2}

GraphInit ==
  /\ loadedMap \in TaggedMapIds
  /\ roadNetwork = EmptyNetwork
  /\ gens = << >>
  /\ steps = << >>
  /\ NoApplication

\* network.buildFromOSM(parsed)
Build ==
  /\ gens = << >>
  /\ roadNetwork' = buildFromOSM(ParsedOf(loadedMap))
  /\ lastCall' = [op |-> "buildFromOSM"]
  /\ UNCHANGED <<loadedMap, gens, steps, state, snappedOrigin, snappedDestination,
                 controllers, parsing, built, pulledStale, pqueue, emitted, failed, listeners>>

\* network.getNeighbors(nodeId, mode), for the ids of the node table and one
\* that is not in it
GetNeighborsCall ==
  \E nodeId \in 0..NumNodes, mode \in Modes :
    /\ gens = << >>
    /\ lastCall' = [op |-> "getNeighbors", nodeId |-> nodeId, mode |-> mode,
                    result |-> getNeighbors(roadNetwork, nodeId, mode)]
    /\ UNCHANGED <<loadedMap, roadNetwork, gens, steps, state, snappedOrigin,
                   snappedDestination, controllers, parsing, built, pulledStale, pqueue, emitted, failed, listeners>>

\* matcher.snapToRoad(point, mode, maxRadius)
SnapCall ==
  \E point \in SnapPoints, mode \in Modes, maxRadius \in Radii :
    /\ gens = << >>
    /\ lastCall' = [op |-> "snapToRoad", point |-> point, mode |-> mode,
                    maxRadius |-> maxRadius,
                    result |-> snapToRoad(roadNetwork, point, mode, maxRadius)]
    /\ UNCHANGED <<loadedMap, roadNetwork, gens, steps, state, snappedOrigin,
                   snappedDestination, controllers, parsing, built, pulledStale, pqueue, emitted, failed, listeners>>

\* router.findRoute(origin, destination, mode), from the point last snapped
\* to the snap of another point
FindRouteCall ==
  \E point \in SnapPoints :
    /\ gens = << >>
    /\ lastCall.op = "snapToRoad"
    /\ lastCall.result # None
    /\ LET destination == snapToRoad(roadNetwork, point, lastCall.mode, lastCall.maxRadius)
       IN /\ destination # None
          /\ gens' = <<findRoute(lastCall.result[1], destination[1], lastCall.mode)>>
    /\ steps' = << << >> >>
    /\ built' = <<FALSE>>
    /\ pulledStale' = <<FALSE>>
    /\ UNCHANGED <<loadedMap, roadNetwork, state, snappedOrigin, snappedDestination,
                   controllers, parsing, lastCall, pqueue, emitted, failed, listeners>>

GraphNext ==
  \/ Build
  \/ GetNeighborsCall
  \/ SnapCall
  \/ FindRouteCall
  \/ Pull
  \/ PullDone

GraphSpec == GraphInit /\ [][GraphNext]_vars

\* ------------------------------------------------------------------------
\* The PriorityQueue driven directly: a new queue, and up to MaxOps pushes
\* and pops on it in any order.  The log keeps every operation made, a pop
\* with what it returned.
\* ------------------------------------------------------------------------

MaxOps == 5

QueueItems == {"a", "b"}

\* priorities: two finite values, Infinity and NaN (findRoute pushes all of
\* these kinds)
QueuePriorities == {1, 2, Infinity, NaN}

QueueInit ==
  /\ loadedMap = <<"grid", 0, 0>>
  /\ roadNetwork = EmptyNetwork
  /\ gens = << >>
  /\ steps = << >>
  /\ NoApplication

\* queue.push(item, priority)
QueuePush ==
  \E item \in QueueItems, priority \in QueuePriorities :
    /\ Len(pqueue.log) < MaxOps
    /\ pqueue' = [heap |-> PQPush(pqueue.heap, item, priority),
                  log |-> Append(pqueue.log,
                                 [op |-> "push", item |-> item, priority |-> priority])]
    /\ UNCHANGED <<loadedMap, roadNetwork, gens, steps, state, snappedOrigin,
                   snappedDestination, controllers, parsing, built, pulledStale, lastCall, emitted, failed, listeners>>

\* queue.pop(): undefined (None) when the heap is empty
QueuePop ==
  /\ Len(pqueue.log) < MaxOps
  /\ pqueue' = IF Len(pqueue.heap) = 0
               THEN [heap |-> pqueue.heap,
                     log |-> Append(pqueue.log, [op |-> "pop", result |-> None])]
               ELSE [heap |-> PQPopRest(pqueue.heap),
                     log |-> Append(pqueue.log,
                                    [op |-> "pop", result |-> Some(PQPopItem(pqueue.heap))])]
  /\ UNCHANGED <<loadedMap, roadNetwork, gens, steps, state, snappedOrigin,
                 snappedDestination, controllers, parsing, built, pulledStale, lastCall, emitted, failed, listeners>>

QueueNext ==
  \/ QueuePush
  \/ QueuePop

QueueSpec == QueueInit /\ [][QueueNext]_vars

\* ------------------------------------------------------------------------
\* The search space of a request, for stating what a search should find
\* ------------------------------------------------------------------------

Terminal(g) == g.pc \in {"complete", "exhausted", "done"}

LastStep(s) == s[Len(s)]

ExploreCount(s) == Cardinality({k \in 1..Len(s) : s[k].type = "explore"})

ExploredIds(s) == {s[k].nodeId : k \in {j \in 1..Len(s) : s[j].type = "explore"}}

\* every ref a search of g can meet
Refs(net, g) ==
  {Real(n) : n \in DOMAIN net.nodes} \cup {Real(g.origin.nodeIds[1]), Real(g.origin.nodeIds[2])}
    \cup {getVirtualNodeId(g.origin), getVirtualNodeId(g.destination)}

Hops(net, g, ref) == getNeighborsForNode(net, ref, g.origin, g.destination, g.mode)

HopTargets(net, g, ref, finiteOnly) ==
  LET hops == Hops(net, g, ref)
  IN {hops[k].nodeId : k \in {j \in 1..Len(hops) : ~finiteOnly \/ IsFiniteNum(hops[j].cost)}}

\* the refs reachable from the refs of seen in at most n more hops
RECURSIVE ReachFrom(_, _, _, _, _)
ReachFrom(net, g, seen, finiteOnly, n) ==
  LET more == seen \cup UNION {HopTargets(net, g, ref, finiteOnly) : ref \in seen}
  IN IF n = 0 \/ more = seen THEN seen ELSE ReachFrom(net, g, more, finiteOnly, n - 1)

\* the goal can be reached from the start in the search space of g
GoalReachable(net, g) ==
  getVirtualNodeId(g.destination) \in
    ReachFrom(net, g, {getVirtualNodeId(g.origin)}, FALSE, Cardinality(Refs(net, g)))

\* ... through hops of finite cost
GoalReachableFinite(net, g) ==
  getVirtualNodeId(g.destination) \in
    ReachFrom(net, g, {getVirtualNodeId(g.origin)}, TRUE, Cardinality(Refs(net, g)))

\* the cheapest finite cost among the hops of the sequence hops that lead
\* to v, Infinity if there is none
CheapestHop(hops, v) ==
  LET costs == {hops[k].cost : k \in {j \in 1..Len(hops) : hops[j].nodeId = v /\ IsFiniteNum(hops[j].cost)}}
  IN IF costs = {} THEN Infinity ELSE CHOOSE c \in costs : \A d \in costs : c <= d

\* the matrix of the cheapest hop costs between the refs of a search
HopCosts(net, g) ==
  [u \in Refs(net, g) |->
     LET hops == Hops(net, g, u)
     IN [v \in Refs(net, g) |-> CheapestHop(hops, v)]]

NumMinOf(costs) == CHOOSE c \in costs : \A e \in costs : ~NumLess(e, c)

\* Bellman-Ford: from the cheapest costs d that use at most some number of
\* hops to those that use n more
RECURSIVE Cheapest(_, _, _)
Cheapest(hc, d, n) ==
  IF n = 0 \/ d = [v \in DOMAIN d |-> NumMinOf({d[v]} \cup {NumAdd(d[u], hc[u][v]) : u \in DOMAIN d})]
  THEN d
  ELSE Cheapest(hc, [v \in DOMAIN d |-> NumMinOf({d[v]} \cup {NumAdd(d[u], hc[u][v]) : u \in DOMAIN d})], n - 1)

\* the cheapest cost of a path from the start to the goal, Infinity if none
ShortestCost(net, g) ==
  LET refs == Refs(net, g)
      d0 == [r \in refs |-> IF r = getVirtualNodeId(g.origin) THEN 0 ELSE Infinity]
  IN Cheapest(HopCosts(net, g), d0, Cardinality(refs))[getVirtualNodeId(g.destination)]

\* the sum of the hop costs along a path, from its k-th ref on
RECURSIVE PathCost(_, _, _, _)
PathCost(net, g, path, k) ==
  IF k >= Len(path) THEN 0
  ELSE NumAdd(CheapestHop(Hops(net, g, path[k]), path[k + 1]), PathCost(net, g, path, k + 1))

\* ------------------------------------------------------------------------
\* Properties of one search
\* ------------------------------------------------------------------------

C2_ReachesComplete ==
  <>(\A i \in DOMAIN gens : Len(steps[i]) > 0 /\ LastStep(steps[i]).type = "complete")

\* a search suspended at its 'complete' step after exploring every real
\* node and both virtual ones
C2_Witness ==
  \E i \in DOMAIN gens :
    /\ gens[i].pc \in {"complete", "exhausted"}
    /\ ExploreCount(steps[i]) >= NumNodes + 2

\* C3: when the goal cannot be reached from the start in the search space
\* (the hops getNeighborsForNode gives for the mode, whatever their cost),
\* the open set empties and the last step is 'complete' with an empty path
\* and totalCost Infinity.
C3_UnreachableGivesNoPath ==
  \A i \in DOMAIN gens :
    (Terminal(gens[i]) /\ ~GoalReachable(roadNetwork, gens[i]))
      => /\ PQIsEmpty(gens[i].openSet)
         /\ LastStep(steps[i]).type = "complete"
         /\ LastStep(steps[i]).path = << >>
         /\ LastStep(steps[i]).totalCost = Infinity

\* a search for an unreachable goal that ended after exploring several nodes
C3_Witness ==
  \E i \in DOMAIN gens :
    /\ gens[i].pc = "exhausted"
    /\ ~GoalReachable(roadNetwork, gens[i])
    /\ ExploreCount(steps[i]) >= 3

\* C4: when the goal can be reached through hops of finite cost, the
\* 'complete' step has a non-empty path and a finite totalCost, and in the
\* grid scenario (t = 0 on (n1,n2) to t = 1 on (n8,n9), car) the totalCost is
\* finite and positive.
C4_ReachableGivesFiniteCost ==
  \A i \in DOMAIN gens :
    (Terminal(gens[i]) /\ GoalReachableFinite(roadNetwork, gens[i]))
      => /\ LastStep(steps[i]).path # << >>
         /\ IsFiniteNum(LastStep(steps[i]).totalCost)
         /\ (loadedMap[1] = "grid" /\ gens[i].origin.interpolation = 0
             /\ gens[i].destination.interpolation = TDen /\ gens[i].mode = "car")
              => LastStep(steps[i]).totalCost > 0

\* C5: whenever the goal is reachable, the totalCost of the 'complete' step
\* is the minimum over all paths from the start to the goal of the sum of
\* the hop costs, and the returned path attains that minimum.
C5_ShortestRoute ==
  \A i \in DOMAIN gens :
    (gens[i].pc \in {"complete", "exhausted"} /\ GoalReachableFinite(roadNetwork, gens[i]))
      => LET shortest == ShortestCost(roadNetwork, gens[i])
         IN /\ LastStep(steps[i]).totalCost = shortest
            /\ PathCost(roadNetwork, gens[i], LastStep(steps[i]).path, 1) = shortest

\* C6: the virtual ids of the origin and of the destination of a search
\* differ from each other and from every real node id; stated here for
\* two snapped points that differ (in segment or in interpolation).
C6_VirtualIdsDistinct ==
  \A i \in DOMAIN gens :
    gens[i].pc # "created" =>
      /\ gens[i].origin # gens[i].destination
           => getVirtualNodeId(gens[i].origin) # getVirtualNodeId(gens[i].destination)
      /\ \A n \in DOMAIN roadNetwork.nodes :
           /\ getVirtualNodeId(gens[i].origin) # Real(n)
           /\ getVirtualNodeId(gens[i].destination) # Real(n)

\* C7: a node id is explored at most once, with at most one tolerated
\* duplicate: the number of 'explore' steps exceeds the number of distinct
\* explored ids by at most one.
C7_ExploredAtMostOnce ==
  \A i \in DOMAIN gens :
    ExploreCount(steps[i]) - Cardinality(ExploredIds(steps[i])) <= 1

\* a finished search that explored at least five nodes and met, while
\* expanding, a neighbour it had already closed
C7_Witness ==
  \E i \in DOMAIN gens :
    /\ Terminal(gens[i])
    /\ ExploreCount(steps[i]) >= 5
    /\ Cardinality(gens[i].closedSet) >= 4

\* C8: the road graph is never rebuilt while a search over it is in flight:
\* no generator is pulled (by any AnimationController) after buildFromOSM
\* has been called on the network the generator was created on.
C8_NoPullAfterRebuild ==
  \A i \in DOMAIN gens : ~pulledStale[i]

\* C9: two generators over the same unmutated network, advanced in any
\* interleaving, each yield exactly the steps they yield when run alone:
\* what a generator has yielded so far is an initial part of its run alone,
\* and all of it once the generator has returned.
C9_InterleavingIndependent ==
  \A i \in DOMAIN gens :
    LET alone == RunAlone(roadNetwork, findRoute(gens[i].origin, gens[i].destination, gens[i].mode))
    IN /\ IsPrefix(steps[i], alone)
       /\ gens[i].pc = "done" => steps[i] = alone

\* two searches with different inputs, both under way: each has been pulled
\* at least twice and neither has finished
C9_Witness ==
  /\ Len(gens) = 2
  /\ InputsOf(gens[1]) # InputsOf(gens[2])
  /\ \A i \in DOMAIN gens : gens[i].pc = "explore" /\ Len(steps[i]) >= 2

C11_GraphUnchanged ==
  [][((lastCall'.op = "snapToRoad" /\ lastCall' # lastCall) \/ gens' # gens \/ steps' # steps)
       => roadNetwork' = roadNetwork]_vars

\* a search between two snapped points of a built network, left after at
\* least two of its steps and before its end
C11_Witness ==
  /\ lastCall.op = "snapToRoad"
  /\ lastCall.result # None
  /\ Len(gens) = 1
  /\ gens[1].pc = "explore"
  /\ Len(steps[1]) >= 2
  /\ Len(roadNetwork.adjacencyList.keys) >= 3

\* C12: the terminal states are final: once the 'complete' step has been
\* yielded (with a path, or empty after exhaustion), no step is ever added
\* to the steps of that search, and the only move left to its generator is
\* to return (a next() then reports done).
C12_TerminalIsFinal ==
  [][\A i \in DOMAIN gens :
       (Len(steps[i]) > 0 /\ LastStep(steps[i]).type = "complete")
         => /\ steps'[i] = steps[i]
            /\ gens'[i] = gens[i] \/ gens'[i].pc = "done"]_vars

\* a search that was pulled again after the step of an emptied open set
\* and has returned
C12_Witness ==
  \E i \in DOMAIN gens :
    /\ gens[i].pc = "done"
    /\ LastStep(steps[i]).type = "complete"
    /\ LastStep(steps[i]).path = << >>
    /\ ExploreCount(steps[i]) >= 2

\* C13: in car mode no hop of the 'complete' path travels against a one-way
\* way: a hop between two real nodes follows a stored edge valid for car,
\* the hop from the virtual origin to an endpoint of its segment follows a
\* stored edge towards that endpoint (or has no length), and the hop into
\* the virtual destination follows a stored edge of its segment out of the
\* node it leaves.  Stated for an origin and a destination on segments that
\* are stored edges valid for car, as snapToRoad gives them.
C13_CarRespectsOneway ==
  \A i \in DOMAIN gens :
    (/\ Terminal(gens[i]) /\ gens[i].mode = "car" /\ Len(steps[i]) > 0
     /\ FindEdge(getNeighbors(roadNetwork, gens[i].origin.nodeIds[1], "car"),
                 gens[i].origin.nodeIds[2], 1) # 0
     /\ FindEdge(getNeighbors(roadNetwork, gens[i].destination.nodeIds[1], "car"),
                 gens[i].destination.nodeIds[2], 1) # 0) =>
      LET g == gens[i]
          path == LastStep(steps[i]).path
          startId == getVirtualNodeId(g.origin)
          goalId == getVirtualNodeId(g.destination)
          HasEdge(a, b) == FindEdge(getNeighbors(roadNetwork, a, "car"), b, 1) # 0
          Follows(u, v) ==
            IF u = startId /\ v # goalId
            THEN \/ v[1] = g.origin.nodeIds[1] /\ g.origin.interpolation = 0
                 \/ v[1] = g.origin.nodeIds[2] /\ g.origin.interpolation = TDen
                 \/ v[1] = g.origin.nodeIds[1] /\ HasEdge(g.origin.nodeIds[2], v[1])
                 \/ v[1] = g.origin.nodeIds[2] /\ HasEdge(g.origin.nodeIds[1], v[1])
            ELSE IF v = goalId /\ u # startId
            THEN \/ u[1] = g.destination.nodeIds[1] /\ HasEdge(u[1], g.destination.nodeIds[2])
                 \/ u[1] = g.destination.nodeIds[2] /\ HasEdge(u[1], g.destination.nodeIds[1])
            ELSE Len(u) = 1 /\ Len(v) = 1 /\ HasEdge(u[1], v[1])
      IN \A k \in 1..(Len(path) - 1) : Follows(path[k], path[k + 1])

\* C14: in bicycle and pedestrian mode one-way restrictions are ignored:
\* for every way tagged one-way whose classification allows the mode and
\* every consecutive pair (a, b) of it whose nodes are in the node table,
\* getNeighbors(b, mode) of the built network contains an edge to a.
C14_OnewayIgnoredOffCar ==
  (lastCall.op = "getNeighbors" /\ roadNetwork # EmptyNetwork
   /\ lastCall.mode \in {"bicycle", "pedestrian"}) =>
    LET parsed == ParsedOf(loadedMap)
    IN \A w \in DOMAIN parsed.ways :
         LET way == parsed.ways[w]
         IN (isOneway(way.tags) /\ lastCall.mode \in getValidModes(way.tags)) =>
              \A k \in 1..(Len(way.nodeIds) - 1) :
                (/\ way.nodeIds[k] \in DOMAIN parsed.nodes
                 /\ way.nodeIds[k + 1] \in DOMAIN parsed.nodes
                 /\ way.nodeIds[k + 1] = lastCall.nodeId)
                  => FindEdge(lastCall.result, way.nodeIds[k], 1) # 0

\* C15: a way with no recognized highway classification yields no edges:
\* after buildFromOSM, getAllEdges() holds no edge whose wayId is a way
\* whose highway tag is absent or in none of the three lists.
C15_UnclassifiedWayNoEdges ==
  lastCall.op = "buildFromOSM" =>
    LET parsed == ParsedOf(loadedMap)
        entries == EdgeEntries(roadNetwork.adjacencyList, 1)
    IN \A e \in 1..Len(entries), w \in DOMAIN parsed.ways :
         parsed.ways[w].id = entries[e].edge.wayId
           => TagGet(parsed.ways[w].tags, "highway")
                \in carRoads \cup bikeRoads \cup pedestrianRoads

\* C16: after buildFromOSM on any input, ways that name ids missing from
\* the node table included, the source key and the targetNodeId of every
\* stored edge are ids of the node table; and a pair with a missing endpoint
\* is skipped without ending the build: every pair of every way whose two
\* nodes are in the node table has its forward edge stored.
C16_EdgesReferenceNodes ==
  LET parsed == ParsedOf(loadedMap)
      entries == EdgeEntries(roadNetwork.adjacencyList, 1)
  IN /\ \A e \in 1..Len(entries) :
          /\ entries[e].fromId \in DOMAIN roadNetwork.nodes
          /\ entries[e].edge.targetNodeId \in DOMAIN roadNetwork.nodes
     /\ lastCall.op = "buildFromOSM" =>
          \A w \in DOMAIN parsed.ways :
            \A k \in 1..(Len(parsed.ways[w].nodeIds) - 1) :
              LET a == parsed.ways[w].nodeIds[k]
                  b == parsed.ways[w].nodeIds[k + 1]
              IN (a \in DOMAIN parsed.nodes /\ b \in DOMAIN parsed.nodes) =>
                   \E e \in 1..Len(entries) :
                     /\ entries[e].fromId = a
                     /\ entries[e].edge.targetNodeId = b
                     /\ entries[e].edge.wayId = parsed.ways[w].id

\* a network built from a way that names a missing node between node 1 and
\* node 2: no edge out of node 1 is stored, the edge from 2 to 3 of the same
\* way and the edges of the next way are
C16_Witness ==
  /\ lastCall.op = "buildFromOSM"
  /\ \E k \in DOMAIN ParsedOf(loadedMap).ways[1].nodeIds :
       ParsedOf(loadedMap).ways[1].nodeIds[k] \notin DOMAIN roadNetwork.nodes
  /\ ~AdjHas(roadNetwork.adjacencyList, 1)
  /\ FindEdge(AdjGet(roadNetwork.adjacencyList, 2), 3, 1) # 0
  /\ FindEdge(AdjGet(roadNetwork.adjacencyList, 2), 4, 1) # 0

\* C17: for every way W and every consecutive pair (a, b) of W with both
\* nodes in the node table, the built graph stores a forward edge a -> b
\* tagged W, and a backward edge b -> a tagged W if and only if W is not
\* tagged one-way (oneway in {yes, 1, true}); the backward edge has the cost
\* and the modes of the forward edge.  The backward edges of a pair are the
\* edges b -> a tagged W beyond the forward edges of W's own pairs (b, a):
\* there is one for each occurrence of the pair, or none.
C17_ForwardAndBackwardEdges ==
  lastCall.op = "buildFromOSM" =>
    LET parsed == ParsedOf(loadedMap)
        adj == roadNetwork.adjacencyList
    IN \A w \in DOMAIN parsed.ways :
         LET way == parsed.ways[w]
             oneway == TagGet(way.tags, "oneway") \in {"yes", "1", "true"}
             Pairs(a, b) ==
               Cardinality({k \in 1..(Len(way.nodeIds) - 1) :
                              way.nodeIds[k] = a /\ way.nodeIds[k + 1] = b})
             Stored(a, b) ==
               {j \in 1..Len(AdjGet(adj, a)) :
                  AdjGet(adj, a)[j].targetNodeId = b /\ AdjGet(adj, a)[j].wayId = way.id}
         IN \A a, b \in DOMAIN parsed.nodes :
              Pairs(a, b) > 0 =>
                /\ Stored(a, b) # {}
                /\ Cardinality(Stored(b, a))
                     = Pairs(b, a) + (IF oneway THEN 0 ELSE Pairs(a, b))
                /\ \A i \in Stored(a, b), j \in Stored(b, a) :
                     /\ AdjGet(adj, b)[j].cost = AdjGet(adj, a)[i].cost
                     /\ AdjGet(adj, b)[j].validModes = AdjGet(adj, a)[i].validModes

\* a network built from a way tagged oneway=true through the nodes 1, 2, 3:
\* its edges 1 -> 2 and 2 -> 3 are stored, 2 -> 1 and 3 -> 2 are not
C17_Witness ==
  /\ lastCall.op = "buildFromOSM"
  /\ TagGet(ParsedOf(loadedMap).ways[1].tags, "oneway") = "true"
  /\ ParsedOf(loadedMap).ways[1].nodeIds = <<1, 2, 3>>
  /\ FindEdge(AdjGet(roadNetwork.adjacencyList, 1), 2, 1) # 0
  /\ FindEdge(AdjGet(roadNetwork.adjacencyList, 2), 3, 1) # 0
  /\ FindEdge(AdjGet(roadNetwork.adjacencyList, 2), 1, 1) = 0
  /\ FindEdge(AdjGet(roadNetwork.adjacencyList, 3), 2, 1) = 0

C19_NullIffNothingInRadius ==
  lastCall.op = "snapToRoad" =>
    LET entries == EdgeEntries(roadNetwork.adjacencyList, 1)
        Distance(e) ==
          pointToSegmentDistance(lastCall.point,
                                 NodeLatLng(getNode(roadNetwork, entries[e].fromId)),
                                 NodeLatLng(getNode(roadNetwork, entries[e].edge.targetNodeId))).distance
        within == \E e \in 1..Len(entries) :
                    /\ lastCall.mode \in entries[e].edge.validModes
                    /\ Distance(e) <= lastCall.maxRadius
    IN (lastCall.result = None) <=> ~within

\* C20: when snapToRoad returns a segment, it is, among all stored edges
\* valid for the mode, one at the smallest distance from the point, and
\* among those at that distance the first in the iteration order of the
\* adjacency structure: every valid edge before it is strictly farther.
C20_ClosestFirstFound ==
  (lastCall.op = "snapToRoad" /\ lastCall.result # None) =>
    LET entries == EdgeEntries(roadNetwork.adjacencyList, 1)
        valid == {e \in 1..Len(entries) : lastCall.mode \in entries[e].edge.validModes}
        Projection(e) ==
          pointToSegmentDistance(lastCall.point,
                                 NodeLatLng(getNode(roadNetwork, entries[e].fromId)),
                                 NodeLatLng(getNode(roadNetwork, entries[e].edge.targetNodeId)))
    IN \E e \in valid :
         /\ lastCall.result[1].nodeIds = <<entries[e].fromId, entries[e].edge.targetNodeId>>
         /\ lastCall.result[1].interpolation = Projection(e).t
         /\ lastCall.result[1].location = Projection(e).closestPoint
         /\ \A f \in valid : Projection(e).distance <= Projection(f).distance
         /\ \A f \in valid : f < e => Projection(e).distance < Projection(f).distance

\* a snap of a point that is at the same smallest distance from the
\* segments of two different ways: the one stored first is returned
C20_Witness ==
  /\ lastCall.op = "snapToRoad"
  /\ lastCall.result # None
  /\ LET entries == EdgeEntries(roadNetwork.adjacencyList, 1)
         valid == {e \in 1..Len(entries) : lastCall.mode \in entries[e].edge.validModes}
         Distance(e) ==
           pointToSegmentDistance(lastCall.point,
                                  NodeLatLng(getNode(roadNetwork, entries[e].fromId)),
                                  NodeLatLng(getNode(roadNetwork, entries[e].edge.targetNodeId))).distance
     IN \E e, f \in valid :
          /\ e < f
          /\ entries[e].edge.wayId # entries[f].edge.wayId
          /\ Distance(e) = Distance(f)
          /\ \A h \in valid : Distance(e) <= Distance(h)
          /\ lastCall.result[1].nodeIds = <<entries[e].fromId, entries[e].edge.targetNodeId>>
          /\ lastCall.result[1].nodeIds # <<entries[f].fromId, entries[f].edge.targetNodeId>>

\* C21: a SnappedPoint returned by snapToRoad has its interpolation in
\* [0, 1] and names in nodeIds a stored edge (from, target) that is valid
\* for the mode; when the two ends of that segment have the same
\* coordinates the interpolation is 0 and the location is the segment start.
C21_SnapOnStoredSegment ==
  (lastCall.op = "snapToRoad" /\ lastCall.result # None) =>
    LET snapped == lastCall.result[1]
        entries == EdgeEntries(roadNetwork.adjacencyList, 1)
        from == NodeLatLng(getNode(roadNetwork, snapped.nodeIds[1]))
        to == NodeLatLng(getNode(roadNetwork, snapped.nodeIds[2]))
    IN /\ snapped.interpolation >= 0
       /\ snapped.interpolation <= TDen
       /\ \E e \in 1..Len(entries) :
            /\ snapped.nodeIds = <<entries[e].fromId, entries[e].edge.targetNodeId>>
            /\ lastCall.mode \in entries[e].edge.validModes
       /\ from = to => (snapped.interpolation = 0 /\ snapped.location = from)

\* a snap whose closest segment has length zero
C21_Witness ==
  /\ lastCall.op = "snapToRoad"
  /\ lastCall.result # None
  /\ NodeLatLng(getNode(roadNetwork, lastCall.result[1].nodeIds[1]))
       = NodeLatLng(getNode(roadNetwork, lastCall.result[1].nodeIds[2]))
  /\ lastCall.result[1].interpolation = 0
  /\ lastCall.result[1].location # lastCall.point

\* ------------------------------------------------------------------------
\* Properties of the PriorityQueue
\* ------------------------------------------------------------------------

\* C22: a pop on a non-empty queue removes exactly one entry and returns
\* the item of an entry whose priority is the smallest in the queue (no
\* entry of the queue has a priority below it); isEmpty() is true exactly
\* when size() is 0.
C22_PopReturnsMinimum ==
  [][LET heap == pqueue.heap
         after == pqueue'.heap
         last == pqueue'.log[Len(pqueue'.log)]
         Count(h, e) == Cardinality({k \in DOMAIN h : h[k] = e})
     IN /\ PQIsEmpty(after) <=> PQSize(after) = 0
        /\ (pqueue' # pqueue /\ last.op = "pop" /\ ~PQIsEmpty(heap)) =>
             /\ last.result # None
             /\ Len(after) = Len(heap) - 1
             /\ \E i \in DOMAIN heap :
                  /\ heap[i].item = last.result[1]
                  /\ \A j \in DOMAIN heap : ~NumLess(heap[j].priority, heap[i].priority)
                  /\ \A j \in DOMAIN heap :
                       Count(after, heap[j])
                         = Count(heap, heap[j]) - (IF heap[j] = heap[i] THEN 1 ELSE 0)
    ]_vars

\* C22, amended: the same, for a queue on which no entry was ever pushed
\* with the priority NaN.
C22_PopReturnsMinimumWithoutNaN ==
  [][LET heap == pqueue.heap
         after == pqueue'.heap
         last == pqueue'.log[Len(pqueue'.log)]
         Count(h, e) == Cardinality({k \in DOMAIN h : h[k] = e})
         neverNaN == \A k \in DOMAIN pqueue.log :
                       pqueue.log[k].op = "push" => pqueue.log[k].priority # NaN
     IN /\ PQIsEmpty(after) <=> PQSize(after) = 0
        /\ (pqueue' # pqueue /\ last.op = "pop" /\ ~PQIsEmpty(heap) /\ neverNaN) =>
             /\ last.result # None
             /\ Len(after) = Len(heap) - 1
             /\ \E i \in DOMAIN heap :
                  /\ heap[i].item = last.result[1]
                  /\ \A j \in DOMAIN heap : ~NumLess(heap[j].priority, heap[i].priority)
                  /\ \A j \in DOMAIN heap :
                       Count(after, heap[j])
                         = Count(heap, heap[j]) - (IF heap[j] = heap[i] THEN 1 ELSE 0)
    ]_vars

\* three pushes with the priorities 2, Infinity and 1, then a pop that
\* returns the item pushed last
C22_Witness ==
  /\ Len(pqueue.log) = 4
  /\ \A k \in 1..3 : pqueue.log[k].op = "push"
  /\ pqueue.log[1].priority = 2
  /\ pqueue.log[2].priority = Infinity
  /\ pqueue.log[3].priority = 1
  /\ pqueue.log[3].item # pqueue.log[1].item
  /\ pqueue.log[4].op = "pop"
  /\ pqueue.log[4].result = Some(pqueue.log[3].item)
  /\ PQSize(pqueue.heap) = 2

\* C23: the queue keeps duplicate entries.  After any operations size() is
\* the number of pushes minus the number of pops that returned an item, for
\* every item the entries queued are the pushes of it less the pops that
\* returned it, every entry queued is a pushed (item, priority) not more
\* often than it was pushed, and a pop returns undefined exactly when the
\* queue is empty, which it then still is.
C23_KeepsDuplicates ==
  LET log == pqueue.log
      heap == pqueue.heap
      PushesTo(n) == {k \in 1..n : log[k].op = "push"}
      PopsTo(n) == {k \in 1..n : log[k].op = "pop" /\ log[k].result # None}
      pushes == PushesTo(Len(log))
      pops == PopsTo(Len(log))
  IN /\ PQSize(heap) = Cardinality(pushes) - Cardinality(pops)
     /\ \A item \in QueueItems :
          Cardinality({k \in DOMAIN heap : heap[k].item = item})
            = Cardinality({k \in pushes : log[k].item = item})
              - Cardinality({k \in pops : log[k].result = Some(item)})
     /\ \A i \in DOMAIN heap :
          Cardinality({k \in DOMAIN heap : heap[k] = heap[i]})
            <= Cardinality({k \in pushes : /\ log[k].item = heap[i].item
                                           /\ log[k].priority = heap[i].priority})
     /\ \A k \in DOMAIN log :
          log[k].op = "pop" =>
            (log[k].result = None
               <=> Cardinality(PushesTo(k - 1)) = Cardinality(PopsTo(k - 1)))

\* a pop on the new queue, then two pushes of the same item with different
\* priorities: both entries are queued
C23_Witness ==
  /\ Len(pqueue.log) = 3
  /\ pqueue.log[1] = [op |-> "pop", result |-> None]
  /\ pqueue.log[2] = [op |-> "push", item |-> "a", priority |-> 2]
  /\ pqueue.log[3] = [op |-> "push", item |-> "a", priority |-> 1]
  /\ pqueue.heap = <<[item |-> "a", priority |-> 1], [item |-> "a", priority |-> 2]>>

\* ------------------------------------------------------------------------
\* The scenario of the router's tests on the grid, and the steps of a search
\* ------------------------------------------------------------------------

\* C24: on the grid, from interpolation 0 on (n1,n2) to interpolation 1 on
\* (n8,n9) by car, the search ends with a complete step whose path has 4 to
\* 6 elements, begins with the virtual ref of the origin (which names n1)
\* and ends with the virtual ref of the destination (which names n9).
C24_GridPath ==
  (/\ loadedMap[1] = "grid"
   /\ gens[1].origin.nodeIds = <<1, 2>> /\ gens[1].origin.interpolation = 0
   /\ gens[1].destination.nodeIds = <<8, 9>> /\ gens[1].destination.interpolation = TDen
   /\ gens[1].mode = "car"
   /\ Terminal(gens[1])) =>
    LET last == LastStep(steps[1])
    IN /\ last.type = "complete"
       /\ Len(last.path) >= 4
       /\ Len(last.path) <= 6
       /\ last.path[1] = getVirtualNodeId(gens[1].origin)
       /\ last.path[1][1] = 1
       /\ last.path[Len(last.path)] = getVirtualNodeId(gens[1].destination)
       /\ last.path[Len(last.path)][2] = 9

\* the search of that scenario has returned
C24_Witness ==
  /\ loadedMap[1] = "grid"
  /\ gens[1].origin.interpolation = 0
  /\ gens[1].destination.interpolation = TDen
  /\ gens[1].mode = "car"
  /\ gens[1].pc = "done"
  /\ Len(LastStep(steps[1]).path) = 5

\* C25: in the same scenario the search never yields more than 9 explore
\* steps, it has yielded at least 4 when it ends, and at least one of them
\* has a finite fScore.
C25_GridExploreSteps ==
  (/\ loadedMap[1] = "grid"
   /\ gens[1].origin.nodeIds = <<1, 2>> /\ gens[1].origin.interpolation = 0
   /\ gens[1].destination.nodeIds = <<8, 9>> /\ gens[1].destination.interpolation = TDen
   /\ gens[1].mode = "car") =>
    /\ ExploreCount(steps[1]) <= 9
    /\ Terminal(gens[1]) =>
         /\ ExploreCount(steps[1]) >= 4
         /\ \E k \in 1..Len(steps[1]) :
              steps[1][k].type = "explore" /\ IsFiniteNum(steps[1][k].fScore)

\* the search of that scenario is at its complete step, after 9 explore
\* steps of which the first has a finite fScore and the last has not
C25_Witness ==
  /\ loadedMap[1] = "grid"
  /\ gens[1].origin.interpolation = 0
  /\ gens[1].destination.interpolation = TDen
  /\ gens[1].mode = "car"
  /\ gens[1].pc = "complete"
  /\ ExploreCount(steps[1]) = 9
  /\ IsFiniteNum(steps[1][1].fScore)
  /\ ~IsFiniteNum(steps[1][9].fScore)

\* C26: the relaxation rule.  When a ref is expanded, the cost tried for a
\* neighbour that is not closed is gScore[ref] + the cost of the hop, also
\* for gScore[ref] = 0.  The neighbour gets the expanded ref as parent, that
\* cost as gScore, the cost plus the heuristic as fScore and a new queue
\* entry exactly when it had no gScore or a cost tried is strictly lower;
\* otherwise nothing of it changes.  No gScore ever increases.
C26_RelaxationRule ==
  [][\A i \in DOMAIN gens :
       (/\ i \in DOMAIN gens'
        /\ gens'[i] # gens[i]
        /\ gens[i].pc = "explore"
        /\ gens[i].current # getVirtualNodeId(gens[i].destination)) =>
         LET g == gens[i]
             after == gens'[i]
             hops == getNeighborsForNode(roadNetwork, g.current, g.origin, g.destination, g.mode)
             Tentative(k) == NumAdd(g.gScore[g.current], hops[k].cost)
             To(q) == {k \in 1..Len(hops) : hops[k].nodeId = q}
             Updated(q) ==
               ~MapHas(g.gScore, q) \/ \E k \in To(q) : NumLess(Tentative(k), g.gScore[q])
             Queued(h, q) == Cardinality({k \in DOMAIN h : h[k].item = q})
         IN /\ \A q \in {hops[k].nodeId : k \in 1..Len(hops)} :
                 (q \notin g.closedSet /\ q # g.current) =>
                   IF Updated(q)
                   THEN /\ MapHas(after.cameFrom, q)
                        /\ after.cameFrom[q] = g.current
                        /\ \E k \in To(q) : after.gScore[q] = Tentative(k)
                        /\ after.fScore[q]
                             = NumAdd(after.gScore[q],
                                      heuristic(getNodeLocation(roadNetwork, q, g.origin,
                                                                g.destination),
                                                g.destination.location, g.mode))
                        /\ \/ after.current = q
                           \/ \E k \in DOMAIN after.openSet :
                                /\ after.openSet[k].item = q
                                /\ after.openSet[k].priority = after.fScore[q]
                   ELSE /\ after.gScore[q] = g.gScore[q]
                        /\ after.fScore[q] = g.fScore[q]
                        /\ MapHas(after.cameFrom, q) <=> MapHas(g.cameFrom, q)
                        /\ MapHas(g.cameFrom, q) => after.cameFrom[q] = g.cameFrom[q]
                        /\ Queued(after.openSet, q) <= Queued(g.openSet, q)
            /\ \A q \in DOMAIN g.gScore :
                 MapHas(after.gScore, q) /\ ~NumLess(g.gScore[q], after.gScore[q])
    ]_vars

\* C27: the redirect into the virtual destination.  When a real node that
\* is one end of the destination segment (A, B) is expanded, an edge to the
\* other end leads to the virtual destination ref, at the cost of the edge
\* times the interpolation from A to B and times (1 - interpolation) from B
\* to A; every other edge leads to its real target at the cost of the
\* edge.  (So the fraction 0.5 is applied to no edge.)
C27_RedirectIntoDestination ==
  \A i \in DOMAIN gens :
    (/\ gens[i].pc = "explore"
     /\ gens[i].current # getVirtualNodeId(gens[i].origin)
     /\ gens[i].current # getVirtualNodeId(gens[i].destination)) =>
      LET g == gens[i]
          n == g.current[1]
          A == g.destination.nodeIds[1]
          B == g.destination.nodeIds[2]
          t == g.destination.interpolation
          edges == getNeighbors(roadNetwork, n, g.mode)
          hops == getNeighborsForNode(roadNetwork, g.current, g.origin, g.destination, g.mode)
      IN /\ Len(hops) = Len(edges)
         /\ \A k \in 1..Len(edges) :
              hops[k] =
                IF n = A /\ edges[k].targetNodeId = B
                THEN [nodeId |-> getVirtualNodeId(g.destination),
                      cost |-> FracMul(t, edges[k].cost)]
                ELSE IF n = B /\ edges[k].targetNodeId = A
                THEN [nodeId |-> getVirtualNodeId(g.destination),
                      cost |-> FracMul(TDen - t, edges[k].cost)]
                ELSE [nodeId |-> Real(edges[k].targetNodeId), cost |-> edges[k].cost]

C29_PathFollowsParents ==
  \A i \in DOMAIN gens :
    LET g == gens[i]
        RECURSIVE Root(_, _)
        Root(q, n) == IF ~MapHas(g.cameFrom, q) THEN Some(q)
                      ELSE IF n = 0 THEN None
                      ELSE Root(g.cameFrom[q], n - 1)
        ExploredAt(r) ==
          {k \in 1..Len(steps[i]) : steps[i][k].type = "explore" /\ steps[i][k].nodeId = r}
    IN /\ \A q \in DOMAIN g.cameFrom : Root(q, Cardinality(DOMAIN g.cameFrom)) # None
       /\ (g.pc \in {"complete", "done"} /\ LastStep(steps[i]).path # << >>) =>
            LET path == LastStep(steps[i]).path
            IN /\ path[1] = getVirtualNodeId(g.origin)
               /\ path[Len(path)] = getVirtualNodeId(g.destination)
               /\ \A j, k \in 1..Len(path) : path[j] = path[k] => j = k
               /\ \A k \in 1..(Len(path) - 1) :
                    /\ MapHas(g.cameFrom, path[k + 1])
                    /\ g.cameFrom[path[k + 1]] = path[k]
                    /\ path[k] \in g.closedSet
                    /\ \E a \in ExploredAt(path[k]) : \A b \in ExploredAt(path[k + 1]) : a < b

\* a complete step with a path of at least four refs, reached after a
\* parent pointer was set for a ref that is not on the path
C29_Witness ==
  \E i \in DOMAIN gens :
    /\ gens[i].pc = "complete"
    /\ Len(LastStep(steps[i]).path) >= 4
    /\ \E q \in DOMAIN gens[i].cameFrom :
         \A k \in 1..Len(LastStep(steps[i]).path) : LastStep(steps[i]).path[k] # q

\* ------------------------------------------------------------------------
\* Properties of the application
\* ------------------------------------------------------------------------

\* C30: a map click that snaps sets the origin only when no origin is set;
\* with an origin and no destination it sets the destination and starts
\* exactly one search, from the snapped origin to the snapped destination;
\* with both set it replaces the origin, clears the destination and starts
\* no search.  (A step that changes an endpoint without a change of the
\* mode and without a new controller is such a click.)  In every state a
\* set destination implies a set origin, and snappedOrigin and
\* snappedDestination are null exactly when state.origin and
\* state.destination are.
C30_ClickCycle ==
  [][/\ state.destination # None => state.origin # None
     /\ (snappedOrigin = None) <=> (state.origin = None)
     /\ (snappedDestination = None) <=> (state.destination = None)
     /\ state'.destination # None => state'.origin # None
     /\ (snappedOrigin' = None) <=> (state'.origin = None)
     /\ (snappedDestination' = None) <=> (state'.destination = None)
     /\ (/\ state'.routingMode = state.routingMode
         /\ Len(controllers') = Len(controllers)
         /\ <<state'.origin, state'.destination, snappedOrigin', snappedDestination'>>
              # <<state.origin, state.destination, snappedOrigin, snappedDestination>>) =>
          IF state.origin = None
          THEN /\ snappedOrigin' # None
               /\ state'.origin = Some(snappedOrigin'[1].location)
               /\ state'.destination = None
               /\ snappedDestination' = None
               /\ gens' = gens
          ELSE IF state.destination = None
          THEN /\ snappedDestination' # None
               /\ state'.destination = Some(snappedDestination'[1].location)
               /\ state'.origin = state.origin
               /\ snappedOrigin' = snappedOrigin
               /\ gens' = Append(gens, findRoute(snappedOrigin[1], snappedDestination'[1],
                                                  state.routingMode))
          ELSE /\ snappedOrigin' # None
               /\ state'.origin = Some(snappedOrigin'[1].location)
               /\ state'.destination = None
               /\ snappedDestination' = None
               /\ gens' = gens
    ]_vars

\* after a third click: one map was loaded, a search was started by the
\* second click, and now an origin is set again and no destination
C30_Witness ==
  /\ Len(controllers) = 1
  /\ Len(gens) = 1
  /\ state.origin # None
  /\ snappedOrigin # None
  /\ state.destination = None
  /\ snappedDestination = None
  /\ snappedOrigin[1] # gens[1].origin

\* ------------------------------------------------------------------------
\* Properties of the AnimationController driven directly
\* ------------------------------------------------------------------------

\* C31: a step is pulled from a generator only by a controller that holds it
\* and is not paused, one step per run of the frame callback and in the
\* generator's order; a run that pulls the 'complete' step emits
\* 'routing-complete' with that step's path and totalCost and leaves
\* isAnimating false and the controller without a generator; 'routing-
\* complete' is emitted by no other run, and no step is pulled from a
\* generator whose 'complete' step was pulled.
C31_CompleteConsumedOnce ==
  [][LET pulled == {g \in DOMAIN gens : gens'[g] # gens[g]}
         IsComplete(e) == e.event = "routing-complete"
     IN /\ (\E k \in DOMAIN emitted' : IsComplete(emitted'[k])) =>
             \E g \in pulled :
               /\ Len(steps'[g]) = Len(steps[g]) + 1
               /\ LastStep(steps'[g]).type = "complete"
        /\ \A g \in pulled :
             LET result == GenNext(roadNetwork, gens[g])
             IN /\ pulled = {g}
                /\ \E c \in DOMAIN controllers :
                     /\ controllers[c].generator = g
                     /\ ~controllers[c].isPaused
                /\ gens'[g] = result.gen
                /\ steps'[g] = steps[g] \o result.yielded
                /\ Len(result.yielded) <= 1
                /\ \A k \in DOMAIN steps[g] : steps[g][k].type # "complete"
                /\ (result.yielded # << >> /\ result.yielded[1].type = "complete") =>
                     /\ emitted' = <<RoutingComplete(result.yielded[1])>>
                     /\ ~state'.isAnimating
                     /\ \A c \in DOMAIN controllers' : controllers'[c].generator # g
    ]_vars

\* the controller was paused and resumed during a search, and the frame
\* callback has now pulled the 'complete' step with a path
C31_Witness ==
  /\ lastCall = [op |-> "resume"]
  /\ Len(gens) = 1
  /\ steps[1] # << >>
  /\ LastStep(steps[1]).type = "complete"
  /\ LastStep(steps[1]).path # << >>
  /\ emitted = <<RoutingComplete(LastStep(steps[1]))>>
  /\ controllers[1].generator = 0
  /\ ~state.isAnimating

\* C39: at most one frame callback of the controller is pending, and none
\* after stop() was the last call made on it.
C39_OneFramePending ==
  \A c \in DOMAIN controllers :
    /\ Cardinality(controllers[c].pending) <= 1
    /\ lastCall = [op |-> "stop"] => controllers[c].pending = {}

\* ------------------------------------------------------------------------
\* Properties of the application's handlers
\* ------------------------------------------------------------------------

\* C32: when the routing mode is changed to another mode while both snapped
\* points are set, both are snapped again in the new mode from their stored
\* locations.  If both snaps succeed they are stored, a search between them
\* in the new mode is created and started on the application's controller,
\* and the search that controller held before is held by no controller.  If
\* either is null an 'error' event is emitted, the stored snapped points
\* stay as they were and no search is created or started.
C32_ModeChangeRecalculates ==
  [][\A mode \in Modes :
       (/\ mode # state.routingMode
        /\ snappedOrigin # None
        /\ snappedDestination # None
        /\ Len(gens) < MaxSearches
        /\ setRoutingMode(mode)) =>
         LET newOrigin == snapToRoad(roadNetwork, snappedOrigin[1].location, mode, MaxRadius)
             newDestination ==
               snapToRoad(roadNetwork, snappedDestination[1].location, mode, MaxRadius)
             current == Len(controllers)
         IN IF newOrigin = None \/ newDestination = None
            THEN /\ \E k \in DOMAIN emitted' : emitted'[k].event = "error"
                 /\ snappedOrigin' = snappedOrigin
                 /\ snappedDestination' = snappedDestination
                 /\ gens' = gens
                 /\ controllers' = controllers
            ELSE /\ snappedOrigin' = newOrigin
                 /\ snappedDestination' = newDestination
                 /\ Len(gens') = Len(gens) + 1
                 /\ InputsOf(gens'[Len(gens')]) = <<newOrigin[1], newDestination[1], mode>>
                 /\ gens'[Len(gens')].pc = "created"
                 /\ controllers'[current].generator = Len(gens')
                 /\ ~controllers'[current].isPaused
                 /\ controllers'[current].pending # {}
                 /\ \A c \in DOMAIN controllers' :
                      controllers[current].generator # 0 =>
                        controllers'[c].generator # controllers[current].generator
                 /\ \A k \in DOMAIN emitted' : emitted'[k].event # "error"
    ]_vars

\* a mode change has just failed to snap one of the points of a running
\* search in the new mode: the error was emitted, the snapped points are
\* still those of the search and its animation still runs
C32_Witness ==
  /\ emitted = <<ErrorEvent("Points not valid for this routing mode")>>
  /\ Len(gens) = 1
  /\ state.routingMode # gens[1].mode
  /\ snappedOrigin = Some(gens[1].origin)
  /\ snappedDestination = Some(gens[1].destination)
  /\ controllers[Len(controllers)].generator = 1

\* C33: a click while no map has been loaded, or at a point that snapToRoad
\* maps to null in the current mode, emits an 'error' event and changes
\* nothing else: state.origin and state.destination, the stored snapped
\* points, the controllers with their generators and pending frames, and
\* the searches and their steps are as before.
C33_FailedClickChangesNothing ==
  [][\A point \in ClickPoints :
       (/\ \/ Len(controllers) = 0
           \/ snapToRoad(roadNetwork, point, state.routingMode, MaxRadius) = None
        /\ Len(gens) < MaxSearches
        /\ handleMapClick(point)) =>
         /\ Len(emitted') = 1
         /\ emitted'[1].event = "error"
         /\ state' = state
         /\ snappedOrigin' = snappedOrigin
         /\ snappedDestination' = snappedDestination
         /\ controllers' = controllers
         /\ gens' = gens
         /\ steps' = steps
         /\ roadNetwork' = roadNetwork
    ]_vars

\* a click far from every road has just been refused while an origin is
\* set and the animation of a search is running
C33_Witness ==
  /\ emitted = <<ErrorEvent("Click closer to a road")>>
  /\ Len(gens) = 1
  /\ controllers[Len(controllers)].generator = 1
  /\ controllers[Len(controllers)].pending # {}
  /\ state.isAnimating
  /\ state.origin # None
  /\ snappedOrigin # None

\* ------------------------------------------------------------------------
\* Properties of the StateManager driven directly
\* ------------------------------------------------------------------------

\* C34: a call setState(updates) leaves as the state the old state with the
\* fields of updates written over it; it emits 'state-changed' once, first,
\* with the new state; after it, in the order file-selected, mode-changed,
\* origin-set, destination-set, animation-speed-changed, theme-changed, it
\* emits the event of a field once if updates provides the field with a
\* value that is not undefined and is not the field's old value, and not at
\* all otherwise; it emits nothing else.  Each emit calls the callbacks
\* subscribed to its event and not unsubscribed since, in the order they
\* subscribed; calling an unsubscribe function takes its callback out of
\* the event's callbacks, and only subscribe puts one in.
C34_SetStateEvents ==
  [][LET u == lastCall'.updates
         events == emitted'
         invoked == lastCall'.invoked
         Provided(k) == k \in DOMAIN u /\ u[k] # undefined[k] /\ u[k] # state[k]
         Index(e) == CHOOSE i \in DOMAIN SpecificEvents : SpecificEvents[i].event = e
         Has(callbacks, f) == \E k \in DOMAIN callbacks : callbacks[k] = f
         RECURSIVE Expected(_)
         Expected(j) ==
           IF j > Len(events) THEN << >>
           ELSE LET callbacks == CallbacksOf(listeners, events[j].event)
                IN [k \in DOMAIN callbacks |->
                      [callback |-> callbacks[k], event |-> events[j].event,
                       data |-> events[j].data]] \o Expected(j + 1)
     IN /\ lastCall'.op = "setState" =>
             /\ DOMAIN state' = DOMAIN state
             /\ \A k \in DOMAIN state :
                  state'[k] = IF k \in DOMAIN u THEN u[k] ELSE state[k]
             /\ Len(events) >= 1
             /\ events[1] = [event |-> "state-changed", data |-> state']
             /\ \A j \in 2..Len(events) :
                  /\ \E i \in DOMAIN SpecificEvents :
                       /\ events[j].event = SpecificEvents[i].event
                       /\ events[j].data = u[SpecificEvents[i].field]
                  /\ \A j2 \in (j + 1)..Len(events) :
                       Index(events[j].event) < Index(events[j2].event)
             /\ \A i \in DOMAIN SpecificEvents :
                  (\E j \in 2..Len(events) : events[j].event = SpecificEvents[i].event)
                    <=> Provided(SpecificEvents[i].field)
             /\ invoked = Expected(1)
             /\ listeners' = listeners
        /\ lastCall'.op = "unsubscribe" =>
             ~Has(CallbacksOf(listeners', lastCall'.event), lastCall'.callback)
        /\ \A sub \in Subscriptions :
             (/\ Has(CallbacksOf(listeners', sub[1]), sub[2])
              /\ ~Has(CallbacksOf(listeners, sub[1]), sub[2])) =>
               lastCall' = [op |-> "subscribe", event |-> sub[1], callback |-> sub[2]]
    ]_vars

\* setState has just been called with all six fields that have an event,
\* each with a new value, after f and then g subscribed to 'mode-changed', f
\* subscribed to 'state-changed' and f unsubscribed from 'mode-changed':
\* the seven events were emitted in order and 'mode-changed' called g only
C34_Witness ==
  /\ lastCall.op = "setState"
  /\ lastCall.updates = StateUpdates[7]
  /\ [j \in DOMAIN emitted |-> emitted[j].event] =
       <<"state-changed", "file-selected", "mode-changed", "origin-set", "destination-set",
         "animation-speed-changed", "theme-changed">>
  /\ {<<"mode-changed", "f">>, <<"mode-changed", "g">>, <<"state-changed", "f">>}
       \subseteq listeners.returned
  /\ CallbacksOf(listeners, "mode-changed") = <<"g">>
  /\ [j \in DOMAIN lastCall.invoked |->
        <<lastCall.invoked[j].event, lastCall.invoked[j].callback>>] =
       <<<<"state-changed", "f">>, <<"mode-changed", "g">>>>

\* ------------------------------------------------------------------------
\* The costs a search records
\* ------------------------------------------------------------------------

\* C35: at every point of a search, every ref other than the start that has
\* a gScore has a parent, and its gScore is the gScore of the parent plus
\* the cost of a hop from the parent to it; the totalCost of a 'complete'
\* step with a path is the sum of the hop costs along the path; and the
\* gScore of every 'explore' step is the sum of the hop costs along the
\* chain of parents of its node.
C35_ParentChainCost ==
  \A i \in DOMAIN gens :
    LET g == gens[i]
        startId == getVirtualNodeId(g.origin)
        ChainCost(ref) == PathCost(roadNetwork, g, reconstructPath(g.cameFrom, ref), 1)
    IN /\ \A ref \in DOMAIN g.gScore \ {startId} :
            /\ MapHas(g.cameFrom, ref)
            /\ MapHas(g.gScore, g.cameFrom[ref])
            /\ LET hops == Hops(roadNetwork, g, g.cameFrom[ref])
               IN \E k \in DOMAIN hops :
                    /\ hops[k].nodeId = ref
                    /\ g.gScore[ref] = NumAdd(g.gScore[g.cameFrom[ref]], hops[k].cost)
       /\ \A k \in DOMAIN steps[i] :
            LET step == steps[i][k]
            IN /\ (step.type = "complete" /\ step.path # << >>) =>
                    step.totalCost = PathCost(roadNetwork, g, step.path, 1)
               /\ step.type = "explore" => step.gScore = ChainCost(step.nodeId)

\* ------------------------------------------------------------------------
\* Properties of file loading
\* ------------------------------------------------------------------------

\* C36: whenever isLoading is true it is false again at some later time,
\* given that every parseFile call in flight settles.
C36_LoadingEnds == state.isLoading ~> ~state.isLoading

\* C37: when a step settles the last parseFile call in flight, the graph of
\* the RoadNetwork is the one built from state.selectedFile, unless the
\* latest load of that file was rejected; and a step that rejects a load
\* leaves the graph as it was.
C37_LatestFileWins ==
  [][/\ (parsing # << >> /\ parsing' = << >> /\ state'.selectedFile[1] \notin failed') =>
          /\ loadedMap' = state'.selectedFile[1]
          /\ roadNetwork' = buildFromOSM(ParsedOf(state'.selectedFile[1]))
     /\ (Len(parsing') < Len(parsing) /\ emitted' = <<ErrorEvent("Failed to load map")>>) =>
          /\ roadNetwork' = roadNetwork
          /\ loadedMap' = loadedMap
    ]_vars

\* C38: after a reset click the previous route is gone for good: while no
\* destination is chosen, no search yields a further explored-node or
\* best-path step to render, and no 'routing-complete' is emitted.
C38_ResetEndsRoute ==
  [][state.destination = None =>
       /\ \A i \in DOMAIN steps : steps'[i] = steps[i]
       /\ \A k \in DOMAIN emitted' : emitted'[k].event # "routing-complete"
    ]_vars

====
